---------------------------- MODULE Spec2Model ----------------------------
(***************************************************************************)
(* The playback control core of player/playloop.c: the wakeup/dispatch     *)
(* gate, the pause arbiter, the seek queue and the inner seek, the restart *)
(* synchronizer, the EOF / loop / keep-open policy and the play loop       *)
(* driver.                                                                 *)
(*                                                                         *)
(* struct MPContext is the record mpctx.  Every function of the file is an *)
(* operator from a context (and the values its collaborators return) to    *)
(* the context it leaves behind, so that a handler calling another one is  *)
(* the composition of the two.  The loop thread's position inside          *)
(* run_playloop() is pc.                                                   *)
(***************************************************************************)
EXTENDS Integers, Sequences, FiniteSets, TLC

VARIABLES mpctx, pc

vars == <<mpctx, pc>>

(***************************************************************************)
(* Bounds of the model.                                                    *)
(***************************************************************************)
\* Largest finite timeout a handler or callback asks for, in units of 0.1 s.
MaxTimeout == 2
\* Callbacks the dispatch queue runs during one mp_wait_events().
MaxCallbacks == 1
\* Commands mp_process_input() reads in one tick.
MaxCommands == 1
\* Largest magnitude of a seek amount a command asks for.
MaxAmount == 1
\* Largest magnitude a pending seek amount or a timestamp grows to.
MaxPts == 2
\* Largest step_frames.
MaxStepFrames == 1

(***************************************************************************)
(* Values of the program.                                                  *)
(***************************************************************************)
\* INFINITY, the sleeptime that means "sleep until interrupted".
INFINITY == 1000
\* MP_NOPTS_VALUE, the timestamp that means "unknown" (below every real one).
MP_NOPTS_VALUE == -1000

\* enum playback_status, in its order.
STATUS_NONE == 0
STATUS_READY == 1
STATUS_PLAYING == 2
STATUS_DRAINING == 3
STATUS_EOF == 4

\* enum stop_play_reason.
KEEP_PLAYING == 0
AT_END_OF_FILE == 1
PT_NEXT_ENTRY == 2
PT_CURRENT_ENTRY == 3
PT_QUIT == 4
PT_ERROR == 5

\* enum seek_type.
MPSEEK_NONE == 0
MPSEEK_RELATIVE == 1
MPSEEK_ABSOLUTE == 2
MPSEEK_FACTOR == 3
MPSEEK_BACKSTEP == 4

\* enum seek_precision, sorted by increasing precision after DEFAULT.
MPSEEK_DEFAULT == 0
MPSEEK_KEYFRAME == 1
MPSEEK_EXACT == 2
MPSEEK_VERY_EXACT == 3

\* The seek flags, as the set of flags that are set.
MPSEEK_FLAG_DELAY == "DELAY"
MPSEEK_FLAG_NOFLUSH == "NOFLUSH"
SeekFlags == {MPSEEK_FLAG_DELAY, MPSEEK_FLAG_NOFLUSH}

MPMIN(a, b) == IF a < b THEN a ELSE b
MPMAX(a, b) == IF a > b THEN a ELSE b
isfinite(x) == x # INFINITY

\* (struct seek_params){0}
seek_params_zero ==
    [type |-> MPSEEK_NONE, amount |-> 0, exact |-> MPSEEK_DEFAULT, flags |-> {}]

(***************************************************************************)
(* Observation: what the core sends to its collaborators during the        *)
(* operation in progress, in program order (mp_notify events, audio and    *)
(* video output calls, demuxer calls).                                     *)
(***************************************************************************)
emit(m, what) == [m EXCEPT !.log = Append(@, what)]
mp_notify(m, event) == emit(m, event)
Emitted(m, what) == \E i \in 1..Len(m.log) : m.log[i] = what
Count(m, what) == Cardinality({i \in 1..Len(m.log) : m.log[i] = what})

\* The least requested timeout, INFINITY when there is none.
MinOrInf(S) == IF S = {} THEN INFINITY ELSE CHOOSE x \in S : \A y \in S : x <= y

(***************************************************************************)
(* Wakeup / dispatch gate.                                                 *)
(***************************************************************************)
\* mp_dispatch_interrupt(): the queue remembers the interrupt until the
\* mp_dispatch_queue_process() it ends has returned.
mp_dispatch_interrupt(m) == [m EXCEPT !.interrupted = TRUE]

mp_wakeup_core_nowake(m) == m

mp_wakeup_core(m) == mp_dispatch_interrupt(m)

mp_set_timeout_nomin(m, sleeptime) ==
    LET m1 == [m EXCEPT !.sleeptime = sleeptime]
    IN  IF m1.in_dispatch /\ isfinite(sleeptime) THEN mp_wakeup_core(m1) ELSE m1

mp_set_timeout_nointerrupt(m, sleeptime) ==
    [m EXCEPT !.sleeptime = MPMIN(m.sleeptime, sleeptime)]

mp_set_timeout(m, sleeptime) ==
    LET m1 == [m EXCEPT !.sleeptime = MPMIN(m.sleeptime, sleeptime)]
    IN  IF m1.in_dispatch /\ isfinite(sleeptime) THEN mp_wakeup_core(m1) ELSE m1

\* mp_wait_events() up to the call of mp_dispatch_queue_process(), which is
\* handed the sleeptime of that moment.
mp_wait_events_begin(m) ==
    [m EXCEPT !.in_dispatch = TRUE, !.proc_timeout = m.sleeptime,
              !.timedout = FALSE]

\* mp_dispatch_queue_process() has nothing to run: it waits iff it was given
\* a timeout above 0 that has not run out and no interrupt is pending.
dispatch_would_block(m) == m.proc_timeout > 0 /\ ~m.timedout /\ ~m.interrupted

\* mp_dispatch_queue_process() returns, and mp_wait_events() after it.
mp_wait_events_end_keepsleeptime(m) ==
    [m EXCEPT !.interrupted = FALSE, !.proc_timeout = INFINITY,
              !.timedout = FALSE, !.in_dispatch = FALSE]

mp_wait_events_end(m) ==
    [m EXCEPT !.interrupted = FALSE, !.proc_timeout = INFINITY,
              !.timedout = FALSE, !.in_dispatch = FALSE, !.sleeptime = INFINITY]

(***************************************************************************)
(* Pause arbiter.                                                          *)
(***************************************************************************)
both_eof(m) == m.video_status = STATUS_EOF /\ m.audio_status = STATUS_EOF

core_active(m) ==
    ~m.paused /\ m.restart_complete /\ m.playing /\ m.in_playloop /\ ~both_eof(m)

update_screensaver_state(m) ==
    IF ~m.video_out THEN m
    ELSE emit(m, IF ~m.playback_active \/ ~m.opts.stop_screensaver
                 THEN "VOCTRL_RESTORE_SCREENSAVER" ELSE "VOCTRL_KILL_SCREENSAVER")

update_core_idle_state_silent(m) ==
    [m EXCEPT !.playback_active = core_active(m)]

update_core_idle_state(m) ==
    LET active == core_active(m)
    IN  IF m.playback_active # active
        THEN mp_notify(update_screensaver_state(
                 [m EXCEPT !.playback_active = active]), "CORE_IDLE")
        ELSE m

internal_paused_useronly(m) == m.opts.pause

internal_paused(m) == m.opts.pause \/ m.paused_for_cache

\* set_pause_state() where the effective pause changes to ip: the outputs
\* are told, and a pause ends frame stepping and takes the time already
\* passed out of time_frame.
set_pause_state_apply_novo(m, ip) ==
    LET a == [m EXCEPT !.paused = ip]
        b == IF a.ao /\ a.ao_chain
             THEN emit(a, IF ip THEN "ao_pause" ELSE "ao_resume")
             ELSE a
        d == mp_wakeup_core(b)
    IN  IF ip THEN emit([d EXCEPT !.step_frames = 0], "time_frame") ELSE d

set_pause_state_apply(m, ip) ==
    LET a == [m EXCEPT !.paused = ip]
        b == IF a.ao /\ a.ao_chain
             THEN emit(a, IF ip THEN "ao_pause" ELSE "ao_resume")
             ELSE a
        c == IF b.video_out
             THEN emit(b, IF ip THEN "vo_set_paused(1)" ELSE "vo_set_paused(0)")
             ELSE b
        d == mp_wakeup_core(c)
    IN  IF ip THEN emit([d EXCEPT !.step_frames = 0], "time_frame") ELSE d

set_pause_state_unguarded(m, user_pause) ==
    LET m1 == [m EXCEPT !.opts.pause = user_pause]
        m3 == update_core_idle_state(
                  set_pause_state_apply(m1, internal_paused(m1)))
    IN  mp_notify(m3, IF m3.opts.pause THEN "PAUSE" ELSE "UNPAUSE")

set_pause_state_useronly(m, user_pause) ==
    LET changed == m.opts.pause # user_pause
        m1 == [m EXCEPT !.opts.pause = user_pause]
        ip == internal_paused(m1)
        m2 == IF ip # m1.paused THEN set_pause_state_apply(m1, ip) ELSE m1
        m3 == update_core_idle_state(m2)
    IN  IF changed
        THEN mp_notify(m3, IF m3.opts.pause THEN "PAUSE" ELSE "UNPAUSE")
        ELSE m3

set_pause_state(m, user_pause) ==
    LET changed == m.opts.pause # user_pause
        m1 == [m EXCEPT !.opts.pause = user_pause]
        ip == internal_paused(m1)
        m2 == IF ip # m1.paused THEN set_pause_state_apply(m1, ip) ELSE m1
        send_update == changed \/ ip # m1.paused
        m3 == update_core_idle_state(m2)
    IN  IF send_update
        THEN mp_notify(m3, IF m3.opts.pause THEN "PAUSE" ELSE "UNPAUSE")
        ELSE m3

update_internal_pause_state(m) == set_pause_state(m, m.opts.pause)

(***************************************************************************)
(* Time and position.                                                      *)
(***************************************************************************)
get_time_length(m) ==
    IF m.demuxer /\ m.duration >= 0 THEN m.duration ELSE MP_NOPTS_VALUE

get_current_time(m) ==
    IF m.demuxer /\ m.playback_pts # MP_NOPTS_VALUE THEN m.playback_pts
    ELSE IF m.demuxer /\ m.last_seek_pts # MP_NOPTS_VALUE THEN m.last_seek_pts
    ELSE MP_NOPTS_VALUE

(***************************************************************************)
(* Seek planner.                                                           *)
(***************************************************************************)
\* reset_video_state() and reset_audio_state(): a chain that does not exist
\* is at EOF, one that exists starts over.
reset_video_state(m) ==
    [m EXCEPT !.video_status = IF m.vo_chain THEN STATUS_NONE ELSE STATUS_EOF]

reset_audio_state(m) ==
    [m EXCEPT !.audio_status = IF m.ao_chain THEN STATUS_NONE ELSE STATUS_EOF]

reset_playback_state_keeprestart(m) ==
    LET m1 == reset_audio_state(reset_video_state(emit(m, "reset")))
        m2 == [m1 EXCEPT !.hrseek_active = FALSE,
                         !.hrseek_lastframe = FALSE,
                         !.current_seek = seek_params_zero,
                         !.playback_pts = MP_NOPTS_VALUE,
                         !.last_seek_pts = MP_NOPTS_VALUE,
                         !.step_frames = 0,
                         !.restarts = 0]
    IN  update_core_idle_state(m2)

reset_playback_state(m) ==
    LET m1 == reset_audio_state(reset_video_state(emit(m, "reset")))
        m2 == [m1 EXCEPT !.hrseek_active = FALSE,
                         !.hrseek_lastframe = FALSE,
                         !.current_seek = seek_params_zero,
                         !.playback_pts = MP_NOPTS_VALUE,
                         !.last_seek_pts = MP_NOPTS_VALUE,
                         !.step_frames = 0,
                         !.restart_complete = FALSE,
                         !.restarts = 0]
    IN  update_core_idle_state(m2)

\* The seek types that have a target: ABSOLUTE, BACKSTEP, RELATIVE, FACTOR.
seek_target(m, seek, current_time) ==
    CASE seek.type = MPSEEK_ABSOLUTE -> seek.amount
      [] seek.type = MPSEEK_BACKSTEP -> current_time
      [] seek.type = MPSEEK_RELATIVE -> current_time + seek.amount
      [] seek.type = MPSEEK_FACTOR ->
            IF get_time_length(m) >= 0 THEN seek.amount * get_time_length(m)
            ELSE MP_NOPTS_VALUE

use_hr_seek_keyframe(m, seek, seek_pts) ==
    /\ m.opts.correct_pts
    /\ \/ m.opts.hr_seek = 0 /\ seek.type = MPSEEK_ABSOLUTE
       \/ m.opts.hr_seek > 0
       \/ seek.exact >= MPSEEK_EXACT
    /\ seek_pts # MP_NOPTS_VALUE

use_hr_seek(m, seek, seek_pts) ==
    /\ m.opts.correct_pts
    /\ seek.exact # MPSEEK_KEYFRAME
    /\ \/ m.opts.hr_seek = 0 /\ seek.type = MPSEEK_ABSOLUTE
       \/ m.opts.hr_seek > 0
       \/ seek.exact >= MPSEEK_EXACT
    /\ seek_pts # MP_NOPTS_VALUE

\* get_track_seek_offset() of track n, 0 for an external track.
RECURSIVE raise_to_tracks(_, _, _)
raise_to_tracks(tracks, n, hr_seek_offset) ==
    IF n > Len(tracks) THEN hr_seek_offset
    ELSE LET offset == IF ~tracks[n].is_external THEN tracks[n].seek_offset ELSE 0
         IN  raise_to_tracks(tracks, n + 1, MPMAX(hr_seek_offset, -offset))

\* The offset an hr-seek subtracts from the demuxer target; HalfSecond is
\* the 0.5 a very exact seek raises it to.
HalfSecond == 1
hr_seek_offset(m, hr_seek_very_exact) ==
    LET o == IF hr_seek_very_exact
             THEN MPMAX(m.opts.hr_seek_demuxer_offset, HalfSecond)
             ELSE m.opts.hr_seek_demuxer_offset
    IN  raise_to_tracks(m.tracks, 1, o)

mp_seek_commit_lastfirst(m, seek, seek_pts, hr_seek, hr_seek_very_exact) ==
    LET m1 == IF MPSEEK_FLAG_NOFLUSH \notin seek.flags
              THEN emit(m, "clear_audio_output_buffers") ELSE m
        m2 == reset_playback_state([m1 EXCEPT !.last_seek_pts = seek_pts])
        m3 == IF hr_seek
              THEN [m2 EXCEPT !.hrseek_active = TRUE, !.hrseek_pts = seek_pts]
              ELSE m2
        m4 == IF m3.stop_play = AT_END_OF_FILE
              THEN [m3 EXCEPT !.stop_play = KEEP_PLAYING] ELSE m3
        m5 == mp_wakeup_core([m4 EXCEPT !.elapsed = 0])
        m6 == mp_notify(mp_notify(m5, "SEEK"), "TICK")
    IN  [m6 EXCEPT !.current_seek = seek]

\* mp_seek() after the demuxer has accepted the seek.
mp_seek_commit(m, seek, seek_pts, hr_seek, hr_seek_very_exact) ==
    LET m1 == IF MPSEEK_FLAG_NOFLUSH \notin seek.flags
              THEN emit(m, "clear_audio_output_buffers") ELSE m
        m2 == [reset_playback_state(m1) EXCEPT !.last_seek_pts = seek_pts]
        m3 == IF hr_seek
              THEN [m2 EXCEPT !.hrseek_active = TRUE, !.hrseek_pts = seek_pts]
              ELSE m2
        m4 == IF m3.stop_play = AT_END_OF_FILE
              THEN [m3 EXCEPT !.stop_play = KEEP_PLAYING] ELSE m3
        m5 == mp_wakeup_core([m4 EXCEPT !.elapsed = 0])
        m6 == mp_notify(mp_notify(m5, "SEEK"), "TICK")
    IN  [m6 EXCEPT !.current_seek = seek]

\* demux_ok: whether demux_seek() accepts the seek.
mp_seek(m, seek, demux_ok) ==
    IF ~m.demuxer \/ seek.type = MPSEEK_NONE \/ seek.amount = MP_NOPTS_VALUE
    THEN m
    ELSE IF get_current_time(m) = MP_NOPTS_VALUE /\ seek.type = MPSEEK_RELATIVE
    THEN m
    ELSE
    LET current_time == IF get_current_time(m) = MP_NOPTS_VALUE THEN 0
                        ELSE get_current_time(m)
        hr_seek_very_exact ==
            seek.exact = MPSEEK_VERY_EXACT \/ seek.type = MPSEEK_BACKSTEP
        seek_pts == seek_target(m, seek, current_time)
        hr_seek == use_hr_seek(m, seek, seek_pts)
        factor == seek.type = MPSEEK_FACTOR /\ ~hr_seek /\
                  (m.ts_resets_possible \/ seek_pts = MP_NOPTS_VALUE)
        demux_pts == IF factor THEN seek.amount
                     ELSE IF hr_seek
                     THEN seek_pts - hr_seek_offset(m, hr_seek_very_exact)
                     ELSE seek_pts
        demux_flags ==
            (IF seek.type = MPSEEK_RELATIVE /\ seek.amount > 0 /\ ~hr_seek
             THEN {"SEEK_FORWARD"} ELSE {})
            \cup (IF factor THEN {"SEEK_FACTOR"} ELSE {})
            \cup (IF hr_seek THEN {"SEEK_HR"} ELSE {})
            \cup (IF ~m.seekable THEN {"SEEK_CACHED"} ELSE {})
        m1 == emit([m EXCEPT !.demux_pts = demux_pts,
                             !.demux_flags = demux_flags], "demux_seek")
    IN  IF ~demux_ok THEN m1
        ELSE mp_seek_commit(m1, seek, seek_pts, hr_seek, hr_seek_very_exact)

\* queue_seek() with MPSEEK_RELATIVE.
queue_seek_relative_replace(seek, amount, exact, flags) ==
    [type |-> MPSEEK_RELATIVE, amount |-> amount, exact |-> exact, flags |-> flags]

queue_seek_relative(seek, amount, exact, flags) ==
    LET s1 == [seek EXCEPT !.flags = @ \cup flags]
    IN  IF s1.type = MPSEEK_FACTOR THEN s1
        ELSE LET s2 == [s1 EXCEPT !.amount = @ + amount,
                                  !.exact = IF s1.type = MPSEEK_NONE THEN exact
                                            ELSE MPMAX(@, exact)]
             IN  IF s2.type = MPSEEK_ABSOLUTE THEN s2
                 ELSE [s2 EXCEPT !.type = MPSEEK_RELATIVE]

\* queue_seek() with MPSEEK_ABSOLUTE, MPSEEK_FACTOR or MPSEEK_BACKSTEP.
queue_seek_replace_keepflags(seek, type, amount, exact, flags) ==
    [type |-> type, amount |-> amount, exact |-> exact,
     flags |-> seek.flags \cup flags]

queue_seek_replace(seek, type, amount, exact, flags) ==
    [type |-> type, amount |-> amount, exact |-> exact, flags |-> flags]

\* The pending record queue_seek() leaves.
queue_seek_merge(seek, type, amount, exact, flags) ==
    CASE type = MPSEEK_RELATIVE -> queue_seek_relative(seek, amount, exact, flags)
      [] type \in {MPSEEK_ABSOLUTE, MPSEEK_FACTOR, MPSEEK_BACKSTEP} ->
            queue_seek_replace(seek, type, amount, exact, flags)
      [] type = MPSEEK_NONE -> seek_params_zero

queue_seek_keepeof(m, type, amount, exact, flags) ==
    [mp_wakeup_core(m) EXCEPT
        !.seek = queue_seek_merge(m.seek, type, amount, exact, flags)]

queue_seek(m, type, amount, exact, flags) ==
    LET m1 == mp_wakeup_core(m)
        m2 == IF m1.stop_play = AT_END_OF_FILE
              THEN [m1 EXCEPT !.stop_play = KEEP_PLAYING] ELSE m1
    IN  [m2 EXCEPT !.seek = queue_seek_merge(m2.seek, type, amount, exact, flags)]

\* The elapsed time at which the continuous-seek delay is over (0.3 s).
SeekDelay == 3
execute_queued_seek_nooverride(m, demux_ok) ==
    IF m.seek.type = MPSEEK_NONE THEN m
    ELSE IF MPSEEK_FLAG_DELAY \in m.seek.flags
            /\ m.video_status < STATUS_PLAYING /\ m.elapsed < SeekDelay
         THEN m
         ELSE [mp_seek(m, m.seek, demux_ok) EXCEPT !.seek = seek_params_zero]

execute_queued_seek_anystatus(m, demux_ok) ==
    IF m.seek.type = MPSEEK_NONE THEN m
    ELSE LET m1 == IF m.hrseek_active /\ m.seek.exact = MPSEEK_KEYFRAME
                   THEN [m EXCEPT !.elapsed = SeekDelay] ELSE m
         IN  IF MPSEEK_FLAG_DELAY \in m1.seek.flags /\ m1.elapsed < SeekDelay
             THEN m1
             ELSE [mp_seek(m1, m1.seek, demux_ok) EXCEPT !.seek = seek_params_zero]

execute_queued_seek_retry(m, demux_ok) ==
    IF m.seek.type = MPSEEK_NONE THEN m
    ELSE LET m1 == IF m.hrseek_active /\ m.seek.exact = MPSEEK_KEYFRAME
                   THEN [m EXCEPT !.elapsed = SeekDelay] ELSE m
             m2 == mp_seek(m1, m1.seek, demux_ok)
         IN  IF MPSEEK_FLAG_DELAY \in m1.seek.flags
                /\ m1.video_status < STATUS_PLAYING /\ m1.elapsed < SeekDelay
             THEN m1
             ELSE IF Emitted(m2, "SEEK")
             THEN [m2 EXCEPT !.seek = seek_params_zero] ELSE m2

execute_queued_seek(m, demux_ok) ==
    IF m.seek.type = MPSEEK_NONE THEN m
    ELSE LET m1 == IF m.hrseek_active /\ m.seek.exact = MPSEEK_KEYFRAME
                   THEN [m EXCEPT !.elapsed = SeekDelay] ELSE m
         IN  IF MPSEEK_FLAG_DELAY \in m1.seek.flags
                /\ m1.video_status < STATUS_PLAYING /\ m1.elapsed < SeekDelay
             THEN m1
             ELSE [mp_seek(m1, m1.seek, demux_ok) EXCEPT !.seek = seek_params_zero]

(***************************************************************************)
(* Collaborators of the loop: the audio and the video side report their    *)
(* readiness by raising audio_status and video_status.                     *)
(***************************************************************************)
\* The statuses fill_audio_out_buffers() may leave: it fills towards READY,
\* starts a READY audio only once video is past READY, and drains to EOF.
audio_status_next(m) ==
    CASE m.audio_status = STATUS_NONE -> {STATUS_NONE, STATUS_READY, STATUS_EOF}
      [] m.audio_status = STATUS_READY ->
            IF m.vo_chain /\ m.video_status <= STATUS_READY THEN {STATUS_READY}
            ELSE {STATUS_PLAYING}
      [] m.audio_status = STATUS_PLAYING ->
            {STATUS_PLAYING, STATUS_DRAINING, STATUS_EOF}
      [] m.audio_status = STATUS_DRAINING -> {STATUS_DRAINING, STATUS_EOF}
      [] m.audio_status = STATUS_EOF -> {STATUS_EOF}

\* The statuses write_video() may leave: READY once the first frame after a
\* restart is there (PLAYING is set by the restart synchronizer), then on to
\* DRAINING and EOF.
video_status_next(m) ==
    CASE m.video_status = STATUS_NONE -> {STATUS_NONE, STATUS_READY, STATUS_EOF}
      [] m.video_status = STATUS_READY -> {STATUS_READY}
      [] m.video_status = STATUS_PLAYING ->
            {STATUS_PLAYING, STATUS_DRAINING, STATUS_EOF}
      [] m.video_status = STATUS_DRAINING -> {STATUS_DRAINING, STATUS_EOF}
      [] m.video_status = STATUS_EOF -> {STATUS_EOF}

\* fill_audio_out_buffers() called on a READY audio by the restart
\* synchronizer: "actually play prepared buffer".
fill_audio_out_buffers_start(m) ==
    IF m.audio_status = STATUS_READY
    THEN [m EXCEPT !.audio_status = STATUS_PLAYING] ELSE m

get_play_end_pts(m) == m.opts.play_end

get_ab_loop_start_time(m) == m.opts.ab_loop[1]

(***************************************************************************)
(* Restart synchronizer.                                                   *)
(***************************************************************************)
\* playing_audio_pts(): the position the audio output reports.
playing_audio_pts(m) == m.audio_pts

handle_playback_time(m) ==
    IF m.vo_chain /\ ~m.is_coverart
       /\ m.video_status >= STATUS_PLAYING /\ m.video_status < STATUS_EOF
    THEN [m EXCEPT !.playback_pts = m.video_pts]
    ELSE IF m.audio_status >= STATUS_PLAYING /\ m.audio_status < STATUS_EOF
    THEN [m EXCEPT !.playback_pts = playing_audio_pts(m)]
    ELSE m

restart_gate_audioonly(m) == m.audio_status < STATUS_READY

\* The statuses that keep the restart synchronizer waiting.
restart_gate(m) ==
    m.audio_status < STATUS_READY \/ m.video_status < STATUS_READY

restart_finish_keephrseek(m) ==
    IF m.restart_complete THEN m
    ELSE LET m1 == [m EXCEPT !.restart_complete = TRUE,
                             !.current_seek = seek_params_zero,
                             !.restarts = MPMIN(@ + 1, 2)]
             m2 == mp_notify(handle_playback_time(m1), "PLAYBACK_RESTART")
         IN  mp_wakeup_core(update_core_idle_state(m2))

restart_finish_always(m) ==
    LET m1 == [m EXCEPT !.hrseek_active = FALSE,
                        !.restart_complete = TRUE,
                        !.current_seek = seek_params_zero,
                        !.restarts = MPMIN(@ + 1, 2)]
        m2 == mp_notify(handle_playback_time(m1), "PLAYBACK_RESTART")
    IN  mp_wakeup_core(update_core_idle_state(m2))

\* handle_playback_restart() once audio and video are both started.
restart_finish(m) ==
    IF m.restart_complete THEN m
    ELSE LET m1 == [m EXCEPT !.hrseek_active = FALSE,
                             !.restart_complete = TRUE,
                             !.current_seek = seek_params_zero,
                             !.restarts = MPMIN(@ + 1, 2)]
             m2 == mp_notify(handle_playback_time(m1), "PLAYBACK_RESTART")
         IN  mp_wakeup_core(update_core_idle_state(m2))

restart_initial_pause_noupdate(m) ==
    IF m.opts.cache_pause_initial
       /\ (m.video_status = STATUS_READY \/ m.audio_status = STATUS_READY)
    THEN [m EXCEPT !.paused_for_cache = TRUE, !.cache_buffer = 0]
    ELSE m

\* handle_playback_restart(): initial buffering starts both in paused mode.
restart_initial_pause(m) ==
    IF m.opts.cache_pause_initial
       /\ (m.video_status = STATUS_READY \/ m.audio_status = STATUS_READY)
    THEN update_internal_pause_state(
             [m EXCEPT !.paused_for_cache = TRUE, !.cache_buffer = 0])
    ELSE m

handle_playback_restart(m, demux_ok) ==
    IF restart_gate(m) THEN m
    ELSE LET m1 == restart_initial_pause(m)
             m2 == IF m1.video_status = STATUS_READY
                   THEN mp_wakeup_core([m1 EXCEPT !.video_status = STATUS_PLAYING])
                   ELSE m1
         IN  IF m2.audio_status = STATUS_READY /\ m2.seek.type # MPSEEK_NONE
                /\ m2.video_status = STATUS_PLAYING
             THEN execute_queued_seek(handle_playback_time(m2), demux_ok)
             ELSE restart_finish(fill_audio_out_buffers_start(m2))

(***************************************************************************)
(* EOF / loop / keep-open policy.                                          *)
(***************************************************************************)
\* vo_has_frame: what vo_has_frame(video_out) is.
\* run_playloop(): the complex filter graph is pumped, and a failed graph
\* ends the file.
lavfi_pump(m, progress, failed) ==
    IF ~m.lavfi THEN m
    ELSE LET m1 == IF progress THEN mp_wakeup_core(m) ELSE m
         IN  IF failed THEN [m1 EXCEPT !.stop_play = AT_END_OF_FILE] ELSE m1

handle_eof_noprevent(m, vo_has_frame) ==
    IF (m.ao_chain \/ m.vo_chain)
       /\ m.audio_status = STATUS_EOF /\ m.video_status = STATUS_EOF
       /\ m.stop_play = KEEP_PLAYING
    THEN [m EXCEPT !.stop_play = AT_END_OF_FILE]
    ELSE m

handle_eof(m, vo_has_frame) ==
    LET prevent_eof == m.paused /\ m.video_out /\ vo_has_frame
    IN  IF (m.ao_chain \/ m.vo_chain) /\ ~prevent_eof
           /\ m.audio_status = STATUS_EOF /\ m.video_status = STATUS_EOF
           /\ m.stop_play = KEEP_PLAYING
        THEN [m EXCEPT !.stop_play = AT_END_OF_FILE]
        ELSE m

handle_loop_file_noab(m) ==
    IF m.opts.loop_file # 0 /\ m.stop_play = AT_END_OF_FILE
    THEN LET m1 == queue_seek([m EXCEPT !.stop_play = KEEP_PLAYING],
                              MPSEEK_ABSOLUTE, 0, MPSEEK_DEFAULT,
                              {MPSEEK_FLAG_NOFLUSH})
         IN  IF m1.opts.loop_file > 0
             THEN [m1 EXCEPT !.opts.loop_file = @ - 1] ELSE m1
    ELSE m

handle_loop_file_nodecrement(m) ==
    IF m.stop_play = AT_END_OF_FILE
       /\ (m.opts.ab_loop[1] # MP_NOPTS_VALUE \/ m.opts.ab_loop[2] # MP_NOPTS_VALUE)
    THEN LET m1 == [m EXCEPT !.stop_play = KEEP_PLAYING]
             start == IF get_ab_loop_start_time(m1) = MP_NOPTS_VALUE THEN 0
                      ELSE get_ab_loop_start_time(m1)
         IN  queue_seek(m1, MPSEEK_ABSOLUTE, start, MPSEEK_EXACT,
                        {MPSEEK_FLAG_NOFLUSH})
    ELSE IF m.opts.loop_file # 0 /\ m.stop_play = AT_END_OF_FILE
    THEN queue_seek([m EXCEPT !.stop_play = KEEP_PLAYING],
                    MPSEEK_ABSOLUTE, 0, MPSEEK_DEFAULT, {MPSEEK_FLAG_NOFLUSH})
    ELSE m

handle_loop_file(m) ==
    IF m.stop_play = AT_END_OF_FILE
       /\ (m.opts.ab_loop[1] # MP_NOPTS_VALUE \/ m.opts.ab_loop[2] # MP_NOPTS_VALUE)
    THEN LET m1 == [m EXCEPT !.stop_play = KEEP_PLAYING]
             start == IF get_ab_loop_start_time(m1) = MP_NOPTS_VALUE THEN 0
                      ELSE get_ab_loop_start_time(m1)
         IN  queue_seek(m1, MPSEEK_ABSOLUTE, start, MPSEEK_EXACT,
                        {MPSEEK_FLAG_NOFLUSH})
    ELSE IF m.opts.loop_file # 0 /\ m.stop_play = AT_END_OF_FILE
    THEN LET m1 == queue_seek([m EXCEPT !.stop_play = KEEP_PLAYING],
                              MPSEEK_ABSOLUTE, 0, MPSEEK_DEFAULT,
                              {MPSEEK_FLAG_NOFLUSH})
         IN  IF m1.opts.loop_file > 0
             THEN [m1 EXCEPT !.opts.loop_file = @ - 1] ELSE m1
    ELSE m

seek_to_last_frame(m, demux_ok) ==
    IF ~m.vo_chain \/ m.hrseek_lastframe THEN m
    ELSE LET end == IF get_play_end_pts(m) = MP_NOPTS_VALUE
                    THEN get_time_length(m) ELSE get_play_end_pts(m)
             m1 == mp_seek(m, [type |-> MPSEEK_ABSOLUTE, amount |-> end,
                               exact |-> MPSEEK_VERY_EXACT, flags |-> {}],
                           demux_ok)
         IN  IF m1.hrseek_active
             THEN [m1 EXCEPT !.hrseek_pts = INFINITY, !.hrseek_lastframe = TRUE]
             ELSE m1

handle_keep_open_nopause(m, vo_has_frame, demux_ok) ==
    IF m.opts.keep_open # 0 /\ m.stop_play = AT_END_OF_FILE
       /\ (m.opts.keep_open = 2 \/ ~m.playlist_has_next)
       /\ m.opts.loop_times = 1
    THEN LET m1 == [m EXCEPT !.stop_play = KEEP_PLAYING]
         IN  IF m1.vo_chain
             THEN [(IF ~vo_has_frame THEN seek_to_last_frame(m1, demux_ok)
                    ELSE m1) EXCEPT !.playback_pts = m1.last_vo_pts]
             ELSE m1
    ELSE m

handle_keep_open(m, vo_has_frame, demux_ok) ==
    IF m.opts.keep_open # 0 /\ m.stop_play = AT_END_OF_FILE
       /\ (m.opts.keep_open = 2 \/ ~m.playlist_has_next)
       /\ m.opts.loop_times = 1
    THEN LET m1 == [m EXCEPT !.stop_play = KEEP_PLAYING]
             m2 == IF m1.vo_chain
                   THEN [(IF ~vo_has_frame THEN seek_to_last_frame(m1, demux_ok)
                          ELSE m1) EXCEPT !.playback_pts = m1.last_vo_pts]
                   ELSE m1
         IN  IF m2.opts.keep_open_pause THEN set_pause_state(m2, TRUE) ELSE m2
    ELSE m

handle_sstep(m) ==
    IF m.stop_play # KEEP_PLAYING \/ ~m.restart_complete THEN m
    ELSE LET m1 == IF m.opts.step_sec > 0 /\ ~m.paused
                   THEN queue_seek(m, MPSEEK_RELATIVE, m.opts.step_sec,
                                   MPSEEK_DEFAULT, {})
                   ELSE m
         IN  IF m1.video_status >= STATUS_EOF
             THEN LET m2 == IF m1.max_frames >= 0 /\ m1.stop_play = KEEP_PLAYING
                            THEN [m1 EXCEPT !.stop_play = AT_END_OF_FILE] ELSE m1
                  IN  IF m2.step_frames > 0 /\ ~m2.paused
                      THEN set_pause_state(m2, TRUE) ELSE m2
             ELSE m1

add_step_frame(m, dir) ==
    IF ~m.vo_chain THEN m
    ELSE IF dir > 0
    THEN set_pause_state([m EXCEPT !.step_frames = @ + 1], FALSE)
    ELSE IF dir < 0 /\ ~m.hrseek_active
    THEN set_pause_state(
             queue_seek(m, MPSEEK_BACKSTEP, 0, MPSEEK_VERY_EXACT, {}), TRUE)
    ELSE m

(***************************************************************************)
(* Cache / buffering controller and OSD redraw.                            *)
(***************************************************************************)
\* 100 * MPCLAMP(ts_duration / cache_pause_wait, 0, 0.99), for a wait > 0.
cache_percent(ts_duration, wait) ==
    IF ts_duration <= 0 THEN 0
    ELSE IF ts_duration >= wait THEN 99
    ELSE (100 * ts_duration) \div wait

cache_pause_arbitrate_eager(m, s) ==
    IF m.paused /\ m.paused_for_cache
    THEN mp_set_timeout(
             IF ~m.opts.cache_pause \/ s.idle
                \/ s.ts_duration >= m.opts.cache_pause_wait
             THEN [update_internal_pause_state(
                       [m EXCEPT !.paused_for_cache = FALSE])
                   EXCEPT !.force_update = TRUE]
             ELSE m, 2)
    ELSE IF m.opts.cache_pause /\ s.underrun
    THEN [update_internal_pause_state([m EXCEPT !.paused_for_cache = TRUE])
          EXCEPT !.force_update = TRUE]
    ELSE m

cache_pause_arbitrate_noupdate(m, s) ==
    IF m.paused /\ m.paused_for_cache
    THEN mp_set_timeout(
             IF ~s.underrun /\ (~m.opts.cache_pause \/ s.idle
                                \/ s.ts_duration >= m.opts.cache_pause_wait)
             THEN [m EXCEPT !.paused_for_cache = FALSE, !.force_update = TRUE]
             ELSE m, 2)
    ELSE IF m.opts.cache_pause /\ s.underrun
    THEN [m EXCEPT !.paused_for_cache = TRUE, !.force_update = TRUE]
    ELSE m

\* handle_pause_on_low_cache(): leaving and entering the cache pause.
cache_pause_arbitrate(m, s) ==
    IF m.paused /\ m.paused_for_cache
    THEN mp_set_timeout(
             IF ~s.underrun /\ (~m.opts.cache_pause \/ s.idle
                                \/ s.ts_duration >= m.opts.cache_pause_wait)
             THEN [update_internal_pause_state(
                       [m EXCEPT !.paused_for_cache = FALSE])
                   EXCEPT !.force_update = TRUE]
             ELSE m, 2)
    ELSE IF m.opts.cache_pause /\ s.underrun
    THEN [update_internal_pause_state([m EXCEPT !.paused_for_cache = TRUE])
          EXCEPT !.force_update = TRUE]
    ELSE m

\* c: the stream cache info, s: the demuxer's reader state, due: whether
\* next_cache_update has passed, dt: the time to the next cache update.
handle_pause_on_low_cache(m, c, s, due, dt) ==
    IF ~m.demuxer THEN m
    ELSE
    LET use_pause_on_low_cache == c.size > 0 \/ m.is_network
        m0 == [m EXCEPT !.force_update = FALSE]
        m1 == IF m0.restart_complete /\ use_pause_on_low_cache
              THEN cache_pause_arbitrate(m0, s) ELSE m0
        cache_buffer ==
            IF m0.restart_complete /\ use_pause_on_low_cache /\ m1.paused_for_cache
            THEN cache_percent(s.ts_duration, m.opts.cache_pause_wait)
            ELSE 100
        busy == ~s.idle \/ ~c.idle
        m2 == IF busy \/ m1.next_cache_update
              THEN LET a == IF ~m1.next_cache_update \/ due
                            THEN [m1 EXCEPT !.next_cache_update = busy,
                                            !.force_update = TRUE]
                            ELSE m1
                   IN  IF a.next_cache_update THEN mp_set_timeout(a, dt) ELSE a
              ELSE m1
        m3 == IF m2.cache_buffer # cache_buffer
              THEN [m2 EXCEPT !.cache_buffer = cache_buffer, !.force_update = TRUE]
              ELSE m2
    IN  [(IF m3.force_update THEN mp_notify(m3, "CACHE_UPDATE") ELSE m3)
         EXCEPT !.force_update = FALSE]

\* config_ok: whether the video output is configured.
handle_osd_redraw(m, config_ok) ==
    IF ~m.video_out \/ ~config_ok THEN m
    ELSE IF ~m.paused /\ m.sleeptime < 1 /\ m.video_status = STATUS_PLAYING THEN m
    ELSE IF m.vo_chain /\ ~m.is_coverart /\ m.elapsed < 1
    THEN mp_set_timeout(m, 1)
    ELSE m

(***************************************************************************)
(* Input: the commands mp_process_input() runs, by what they call.         *)
(***************************************************************************)
run_command(m, cmd) ==
    CASE cmd.op = "pause" -> set_pause_state(m, cmd.pause)
      [] cmd.op = "seek" ->
            queue_seek(m, cmd.type, cmd.amount, cmd.exact, cmd.flags)
      [] cmd.op = "frame_step" -> add_step_frame(m, cmd.dir)
      [] cmd.op = "stop" -> mp_wakeup_core([m EXCEPT !.stop_play = cmd.reason])

RECURSIVE run_commands(_, _)
run_commands(m, cmds) ==
    IF cmds = <<>> THEN m
    ELSE run_commands(run_command(m, Head(cmds)), Tail(cmds))

\* delay: what mp_input_get_delay() is.
mp_process_input(m, cmds, delay) == mp_set_timeout(run_commands(m, cmds), delay)

(***************************************************************************)
(* The state a file starts playing in.                                     *)
(***************************************************************************)
DefaultOpts ==
    [pause |-> FALSE, stop_screensaver |-> TRUE, correct_pts |-> TRUE,
     hr_seek |-> 0, hr_seek_demuxer_offset |-> 0,
     cache_pause |-> TRUE, cache_pause_initial |-> FALSE, cache_pause_wait |-> 1,
     keep_open |-> 0, keep_open_pause |-> TRUE, loop_file |-> 0, loop_times |-> 1,
     ab_loop |-> <<MP_NOPTS_VALUE, MP_NOPTS_VALUE>>, step_sec |-> 0,
     play_end |-> MP_NOPTS_VALUE]

DefaultCfg ==
    [opts |-> DefaultOpts, ao_chain |-> TRUE, vo_chain |-> TRUE,
     is_coverart |-> FALSE, demuxer |-> TRUE, duration |-> 2, seekable |-> TRUE,
     ts_resets_possible |-> FALSE, is_network |-> TRUE, tracks |-> <<>>,
     playlist_has_next |-> FALSE, max_frames |-> -1, last_vo_pts |-> 1]

\* History of the operation in progress, kept for the statements about it.
\* requested: the timeouts the loop's handlers passed to mp_set_timeout()
\* since mp_wait_events() last returned; woken: whether mp_wakeup_core() was
\* called since then; callbacks, cb_finite, blocked: what happened inside the
\* mp_wait_events() in progress; queued: the last queue_seek() call and the
\* pending record it found; stop_found: the stop_play it found; waited: the
\* time since start_timestamp the last execute_queued_seek() saw and
\* demux_answer what demux_seek() would have answered to it; kept_open:
\* whether the tick's handle_keep_open() found its condition true;
\* loop_file_set: the loop_file the file started with; looped: the ends of
\* file handle_loop_file() has turned into a restart of the file; restarts:
\* PLAYBACK_RESTART events since the last reset_playback_state().
\* reader and stream_cache are what the demuxer answers to
\* DEMUXER_CTRL_GET_READER_STATE and STREAM_CTRL_GET_CACHE_INFO.
NotQueued ==
    [called |-> FALSE, prev |-> seek_params_zero, type |-> MPSEEK_NONE,
     amount |-> 0, exact |-> MPSEEK_DEFAULT, flags |-> {}]

InitCtx(cfg) ==
    [sleeptime |-> INFINITY, in_dispatch |-> FALSE, interrupted |-> FALSE,
     proc_timeout |-> INFINITY, timedout |-> FALSE,
     opts |-> cfg.opts,
     paused |-> cfg.opts.pause, paused_for_cache |-> FALSE,
     playback_active |-> FALSE, restart_complete |-> FALSE,
     playing |-> TRUE, in_playloop |-> TRUE,
     video_status |-> IF cfg.vo_chain THEN STATUS_NONE ELSE STATUS_EOF,
     audio_status |-> IF cfg.ao_chain THEN STATUS_NONE ELSE STATUS_EOF,
     stop_play |-> KEEP_PLAYING,
     seek |-> seek_params_zero, current_seek |-> seek_params_zero,
     hrseek_active |-> FALSE, hrseek_lastframe |-> FALSE,
     hrseek_pts |-> MP_NOPTS_VALUE,
     step_frames |-> 0,
     playback_pts |-> MP_NOPTS_VALUE, last_seek_pts |-> MP_NOPTS_VALUE,
     video_pts |-> MP_NOPTS_VALUE, audio_pts |-> MP_NOPTS_VALUE,
     last_vo_pts |-> cfg.last_vo_pts,
     elapsed |-> 0, cache_buffer |-> 100, next_cache_update |-> FALSE,
     force_update |-> FALSE,
     ao |-> cfg.ao_chain, ao_chain |-> cfg.ao_chain,
     video_out |-> cfg.vo_chain, vo_chain |-> cfg.vo_chain,
     is_coverart |-> cfg.is_coverart,
     demuxer |-> cfg.demuxer, duration |-> cfg.duration,
     seekable |-> cfg.seekable, ts_resets_possible |-> cfg.ts_resets_possible,
     is_network |-> cfg.is_network, tracks |-> cfg.tracks,
     playlist_has_next |-> cfg.playlist_has_next, max_frames |-> cfg.max_frames,
     demux_pts |-> MP_NOPTS_VALUE, demux_flags |-> {},
     log |-> <<>>, restarts |-> 0,
     requested |-> {}, woken |-> FALSE, callbacks |-> 0, cb_finite |-> FALSE,
     blocked |-> FALSE, blocked_despite_wake |-> FALSE,
     queued |-> NotQueued, stop_found |-> KEEP_PLAYING, waited |-> 0,
     demux_answer |-> TRUE,
     lavfi |-> FALSE, kept_open |-> FALSE, loop_seek |-> FALSE, initial_buffering |-> FALSE, lastframe_sought |-> FALSE, vo_has_frame |-> FALSE, loop_file_set |-> cfg.opts.loop_file, looped |-> 0,
     reader |-> [idle |-> TRUE, underrun |-> FALSE, ts_duration |-> -1],
     stream_cache |-> [idle |-> TRUE, size |-> 0]]

(***************************************************************************)
(* What the collaborators may hand to the loop.                            *)
(***************************************************************************)
Timeouts == 0..MaxTimeout
TimeoutsOrInf == Timeouts \cup {INFINITY}
PtsVals == {1}

SeekCmds ==
    {[op |-> "seek", type |-> MPSEEK_RELATIVE, amount |-> MaxAmount,
      exact |-> MPSEEK_DEFAULT, flags |-> {MPSEEK_FLAG_DELAY}],
     [op |-> "seek", type |-> MPSEEK_ABSOLUTE, amount |-> MaxAmount,
      exact |-> MPSEEK_EXACT, flags |-> {}]}

Commands ==
    {[op |-> "pause", pause |-> b] : b \in BOOLEAN}
    \cup SeekCmds
    \cup {[op |-> "frame_step", dir |-> d] : d \in {-1, 1}}
    \cup {[op |-> "stop", reason |-> r] : r \in {PT_QUIT}}

RECURSIVE SeqsUpTo(_, _)
SeqsUpTo(S, n) ==
    IF n = 0 THEN {<<>>}
    ELSE SeqsUpTo(S, n - 1)
         \cup {Append(q, x) : q \in {r \in SeqsUpTo(S, n - 1) : Len(r) = n - 1},
                              x \in S}

CacheInfos == {[idle |-> TRUE, size |-> 0]}
ReaderStates ==
    {[idle |-> TRUE, underrun |-> FALSE, ts_duration |-> -1],
     [idle |-> FALSE, underrun |-> TRUE, ts_duration |-> 0],
     [idle |-> FALSE, underrun |-> FALSE, ts_duration |-> 1]}

\* The timestamps and amounts stay within the model's range.
InBounds(m) ==
    /\ m.seek.amount \in -MaxPts..MaxPts
    /\ m.last_seek_pts \in {MP_NOPTS_VALUE} \cup -MaxPts..MaxPts

StepInBounds(m) == m.step_frames + MaxCommands <= MaxStepFrames

\* An operation starts: nothing is sent yet.  demux_pts and demux_flags are
\* the arguments of the operation's demux_seek(); hrseek_pts, which this
\* file writes and never reads, is kept as the operation wrote it.
Begin(m) == [m EXCEPT !.log = <<>>, !.demux_pts = MP_NOPTS_VALUE,
                      !.demux_flags = {}, !.hrseek_pts = MP_NOPTS_VALUE]

(***************************************************************************)
(* run_playloop(), one handler after the other.                            *)
(***************************************************************************)
\* fill_audio_out_buffers(); write_video()
RunAudioVideo ==
    /\ pc = "top"
    /\ InBounds(mpctx)
    /\ \E a \in audio_status_next(mpctx), v \in video_status_next(mpctx),
          p \in PtsVals :
          mpctx' = [Begin(mpctx) EXCEPT
                        !.audio_status = a, !.video_status = v,
                        !.video_pts = IF mpctx.vo_chain THEN p ELSE @,
                        !.audio_pts = IF mpctx.vo_chain THEN @ ELSE p]
    /\ pc' = "restart"

RunPlaybackRestart ==
    /\ pc = "restart"
    /\ \E demux_ok \in BOOLEAN :
          mpctx' = handle_playback_restart(Begin(mpctx), demux_ok)
    /\ pc' = "policy"

\* handle_playback_time(); handle_eof(); handle_loop_file();
\* handle_keep_open(); handle_sstep(); update_core_idle_state(); then the
\* return on stop_play, or handle_osd_redraw() on the way to mp_wait_events().
RunEofPolicy ==
    /\ pc = "policy"
    /\ \E vo_has_frame \in BOOLEAN, demux_ok \in BOOLEAN, config_ok \in BOOLEAN :
       \E m1 \in {handle_playback_time(Begin(mpctx))} :
       \E m2 \in {handle_eof(m1, vo_has_frame)} :
       \E m3 \in {handle_loop_file(m2)} :
       \E m4 \in {handle_keep_open(m3, vo_has_frame, demux_ok)} :
       \E m5 \in {handle_sstep(m4)} :
       \E m6 \in {update_core_idle_state(m5)} :
          IF m6.stop_play # KEEP_PLAYING
          THEN mpctx' = m6 /\ pc' = "returned"
          ELSE mpctx' = handle_osd_redraw(m6, config_ok) /\ pc' = "wait"

\* mp_wait_events() as a whole, with no callback queued: the sleep, if there
\* is one, ends when its timeout runs out or when another thread interrupts
\* it (ext) after d units of time.
RunWaitEvents ==
    /\ pc = "wait"
    /\ LET m1 == mp_wait_events_begin(Begin(mpctx))
       IN  IF ~dispatch_would_block(m1)
           THEN mpctx' = mp_wait_events_end(m1)
           ELSE \E ext \in BOOLEAN, d \in {0, SeekDelay} :
                   /\ ext \/ isfinite(m1.proc_timeout)
                   /\ ext \/ d = 0
                   /\ mpctx' = [mp_wait_events_end(
                                    IF ext THEN mp_wakeup_core(m1) ELSE m1)
                                EXCEPT !.elapsed =
                                    MPMIN(@ + (IF ext THEN d ELSE m1.proc_timeout),
                                          SeekDelay)]
    /\ pc' = "cache"

RunCache ==
    /\ pc = "cache"
    /\ \E c \in CacheInfos, s \in ReaderStates, due \in BOOLEAN, dt \in {MaxTimeout} :
          mpctx' = handle_pause_on_low_cache(Begin(mpctx), c, s, due, dt)
    /\ pc' = "input"

RunProcessInput ==
    /\ pc = "input"
    /\ InBounds(mpctx)
    /\ \E cmds \in SeqsUpTo(Commands, MaxCommands), delay \in {INFINITY} :
          /\ \A i \in 1..Len(cmds) : cmds[i].op = "frame_step" => StepInBounds(mpctx)
          /\ mpctx' = mp_process_input(Begin(mpctx), cmds, delay)
    /\ pc' = "seek"

\* execute_queued_seek(), and run_playloop() returns; its caller calls it
\* again unless stop_play is set.
RunExecuteSeek ==
    /\ pc = "seek"
    /\ \E demux_ok \in BOOLEAN :
          mpctx' = execute_queued_seek(Begin(mpctx), demux_ok)
    /\ pc' = IF mpctx'.stop_play # KEEP_PLAYING THEN "returned" ELSE "top"

Configs ==
    {[DefaultCfg EXCEPT !.opts.cache_pause_initial = TRUE, !.opts.keep_open = 2],
     [DefaultCfg EXCEPT !.vo_chain = FALSE],
     [DefaultCfg EXCEPT !.ao_chain = FALSE]}

Init ==
    /\ pc = "top"
    /\ \E cfg \in Configs : mpctx = InitCtx(cfg)

Next ==
    \/ RunAudioVideo
    \/ RunPlaybackRestart
    \/ RunEofPolicy
    \/ RunWaitEvents
    \/ RunCache
    \/ RunProcessInput
    \/ RunExecuteSeek

Spec == Init /\ [][Next]_vars

(***************************************************************************)
(* The wakeup / dispatch gate step by step: the handlers of one tick ask   *)
(* for timeouts and wake-ups, mp_wait_events() hands the sleeptime to      *)
(* mp_dispatch_queue_process(), which runs the queued callbacks, sleeps    *)
(* and returns, while other threads wake the core at any moment.           *)
(* pc is "loop" outside mp_wait_events(), "process" inside                 *)
(* mp_dispatch_queue_process() and "asleep" while it waits.                *)
(***************************************************************************)
GateForget(m) ==
    [m EXCEPT !.requested = {}, !.woken = FALSE, !.callbacks = 0,
              !.cb_finite = FALSE, !.blocked = FALSE]

\* A handler of the loop calls mp_set_timeout().
HandlerSetTimeout ==
    /\ pc = "loop"
    /\ \E t \in TimeoutsOrInf :
          mpctx' = [mp_set_timeout(mpctx, t) EXCEPT !.requested = @ \cup {t}]
    /\ UNCHANGED pc

\* A handler of the loop calls mp_wakeup_core().
HandlerWakeup ==
    /\ pc = "loop"
    /\ mpctx' = [mp_wakeup_core(mpctx) EXCEPT !.woken = TRUE]
    /\ UNCHANGED pc

\* Another thread calls mp_wakeup_core(), wherever the loop is.
OtherThreadWakeup ==
    /\ pc \in {"loop", "process", "asleep"}
    /\ mpctx' = [mp_wakeup_core(mpctx) EXCEPT !.woken = TRUE]
    /\ UNCHANGED pc

WaitBegin ==
    /\ pc = "loop"
    /\ mpctx' = mp_wait_events_begin(mpctx)
    /\ pc' = "process"

\* A queued callback runs (queueing it wakes a sleeping queue); it may call
\* mp_set_timeout().
DispatchCallback ==
    /\ pc \in {"process", "asleep"}
    /\ mpctx.callbacks < MaxCallbacks
    /\ \E calls \in BOOLEAN, t \in TimeoutsOrInf :
          LET m1 == IF calls THEN mp_set_timeout(mpctx, t) ELSE mpctx
          IN  mpctx' = [m1 EXCEPT !.callbacks = @ + 1,
                                  !.cb_finite = @ \/ (calls /\ isfinite(t))]
    /\ pc' = "process"

\* Nothing to run: the queue goes to sleep.
DispatchBlock ==
    /\ pc = "process"
    /\ dispatch_would_block(mpctx)
    /\ mpctx' = [mpctx EXCEPT !.blocked = TRUE,
                              !.blocked_despite_wake = @ \/ mpctx.woken]
    /\ pc' = "asleep"

\* The timeout handed to the queue runs out.
DispatchTimeout ==
    /\ pc = "asleep"
    /\ isfinite(mpctx.proc_timeout)
    /\ mpctx' = [mpctx EXCEPT !.timedout = TRUE]
    /\ pc' = "process"

\* The sleep is interrupted.
DispatchInterrupted ==
    /\ pc = "asleep"
    /\ mpctx.interrupted
    /\ UNCHANGED mpctx
    /\ pc' = "process"

\* mp_dispatch_queue_process() returns, and mp_wait_events() with it.
WaitEnd ==
    /\ pc = "process"
    /\ ~dispatch_would_block(mpctx)
    /\ mpctx' = GateForget(mp_wait_events_end(mpctx))
    /\ pc' = "loop"

InitGate ==
    /\ pc = "loop"
    /\ mpctx = InitCtx(DefaultCfg)

NextGate ==
    \/ HandlerSetTimeout
    \/ HandlerWakeup
    \/ OtherThreadWakeup
    \/ WaitBegin
    \/ DispatchCallback
    \/ DispatchBlock
    \/ DispatchTimeout
    \/ DispatchInterrupted
    \/ WaitEnd

SpecGate == InitGate /\ [][NextGate]_vars

(***************************************************************************)
(* The seek queue on its own: any run of queue_seek() calls, then          *)
(* execute_queued_seek().  pc is "queue" while calls may follow and        *)
(* "executed" once the pending seek has been taken.                        *)
(***************************************************************************)
SeekPrecisions ==
    {MPSEEK_DEFAULT, MPSEEK_KEYFRAME, MPSEEK_EXACT, MPSEEK_VERY_EXACT}
SeekAmounts == {-MaxAmount, MaxAmount}

\* The calls of queue_seek(): relative ones in both directions, the others
\* with one amount each.
QueueCalls ==
    {[type |-> MPSEEK_RELATIVE, amount |-> a, exact |-> e, flags |-> f] :
        a \in SeekAmounts, e \in SeekPrecisions, f \in SUBSET SeekFlags}
    \cup {[type |-> t, amount |-> MaxAmount, exact |-> e, flags |-> f] :
        t \in {MPSEEK_ABSOLUTE, MPSEEK_FACTOR}, e \in SeekPrecisions,
        f \in SUBSET SeekFlags}
    \cup {[type |-> MPSEEK_BACKSTEP, amount |-> 0, exact |-> e, flags |-> f] :
        e \in {MPSEEK_KEYFRAME, MPSEEK_VERY_EXACT}, f \in SUBSET SeekFlags}
    \cup {[type |-> MPSEEK_NONE, amount |-> 0, exact |-> MPSEEK_DEFAULT,
           flags |-> {}]}

QueueSeek ==
    /\ pc = "queue"
    /\ \E c \in QueueCalls :
          /\ queue_seek_merge(mpctx.seek, c.type, c.amount, c.exact, c.flags).amount
                \in -MaxPts..MaxPts
          /\ mpctx' = [queue_seek(Begin(mpctx), c.type, c.amount, c.exact, c.flags)
                       EXCEPT !.queued =
                           [called |-> TRUE, prev |-> mpctx.seek, type |-> c.type,
                            amount |-> c.amount, exact |-> c.exact,
                            flags |-> c.flags],
                              !.stop_found = mpctx.stop_play]
    /\ UNCHANGED pc

\* dt: the time since start_timestamp.
QueueExecute ==
    /\ pc = "queue"
    /\ \E demux_ok \in BOOLEAN, dt \in {0, SeekDelay} :
          mpctx' = [execute_queued_seek([Begin(mpctx) EXCEPT !.elapsed = dt],
                                        demux_ok)
                    EXCEPT !.queued = NotQueued]
    /\ pc' = IF mpctx'.seek.type # MPSEEK_NONE THEN "queue" ELSE "executed"

InitQueue ==
    /\ pc = "queue"
    /\ \E sp \in {KEEP_PLAYING, AT_END_OF_FILE} :
          mpctx = [InitCtx(DefaultCfg) EXCEPT !.stop_play = sp]

NextQueue ==
    \/ QueueSeek
    \/ QueueExecute

SpecQueue == InitQueue /\ [][NextQueue]_vars

(***************************************************************************)
(* queue_seek() and execute_queued_seek() wherever they may find the       *)
(* player: pc is "idle" before the first call, "queued" after a            *)
(* queue_seek(), "deferred" or "executed" after an execute_queued_seek().  *)
(***************************************************************************)
MaxOffset == 1

\* stop_play, the video side and a previous hr-seek, as a tick may leave them.
SeekStates ==
    {[stop_play |-> KEEP_PLAYING, video_status |-> STATUS_NONE, hrseek_active |-> FALSE],
     [stop_play |-> AT_END_OF_FILE, video_status |-> STATUS_NONE, hrseek_active |-> TRUE],
     [stop_play |-> PT_QUIT, video_status |-> STATUS_PLAYING, hrseek_active |-> FALSE],
     [stop_play |-> PT_ERROR, video_status |-> STATUS_PLAYING, hrseek_active |-> TRUE],
     [stop_play |-> PT_NEXT_ENTRY, video_status |-> STATUS_NONE, hrseek_active |-> FALSE],
     [stop_play |-> PT_CURRENT_ENTRY, video_status |-> STATUS_NONE, hrseek_active |-> TRUE]}

\* --hr-seek=no, absolute, yes.
HrSeekOpts == {-1, 0, 1}
HrSeekDemuxerOffsets == {-MaxOffset, 0, MaxOffset}

\* No track, a track of the file and an external one, both with a delay.
SeekTracks ==
    {<<>>,
     <<[is_external |-> FALSE, seek_offset |-> -(MaxOffset + 1)]>>,
     <<[is_external |-> TRUE, seek_offset |-> -(MaxOffset + 1)]>>}

SeekCalls ==
    {[type |-> MPSEEK_RELATIVE, amount |-> MaxAmount, exact |-> MPSEEK_DEFAULT,
      flags |-> {MPSEEK_FLAG_DELAY}],
     [type |-> MPSEEK_RELATIVE, amount |-> -MaxAmount, exact |-> MPSEEK_EXACT,
      flags |-> {}],
     [type |-> MPSEEK_RELATIVE, amount |-> MaxAmount, exact |-> MPSEEK_KEYFRAME,
      flags |-> {MPSEEK_FLAG_DELAY}],
     [type |-> MPSEEK_ABSOLUTE, amount |-> MaxAmount, exact |-> MPSEEK_DEFAULT,
      flags |-> {}],
     [type |-> MPSEEK_ABSOLUTE, amount |-> MaxAmount, exact |-> MPSEEK_KEYFRAME,
      flags |-> {MPSEEK_FLAG_DELAY}],
     [type |-> MPSEEK_ABSOLUTE, amount |-> MaxAmount, exact |-> MPSEEK_VERY_EXACT,
      flags |-> {MPSEEK_FLAG_DELAY, MPSEEK_FLAG_NOFLUSH}],
     [type |-> MPSEEK_FACTOR, amount |-> MaxAmount, exact |-> MPSEEK_DEFAULT,
      flags |-> {}],
     [type |-> MPSEEK_FACTOR, amount |-> MaxAmount, exact |-> MPSEEK_EXACT,
      flags |-> {MPSEEK_FLAG_DELAY}],
     [type |-> MPSEEK_BACKSTEP, amount |-> 0, exact |-> MPSEEK_VERY_EXACT,
      flags |-> {}],
     [type |-> MPSEEK_ABSOLUTE, amount |-> MP_NOPTS_VALUE, exact |-> MPSEEK_EXACT,
      flags |-> {}],
     [type |-> MPSEEK_NONE, amount |-> 0, exact |-> MPSEEK_DEFAULT, flags |-> {}]}

SeekQueue ==
    /\ pc \in {"idle", "queued", "deferred"}
    /\ \E c \in SeekCalls :
          /\ queue_seek_merge(mpctx.seek, c.type, c.amount, c.exact, c.flags).amount
                \in {MP_NOPTS_VALUE} \cup -MaxPts..MaxPts
          /\ mpctx' = [queue_seek(Begin(mpctx), c.type, c.amount, c.exact, c.flags)
                       EXCEPT !.stop_found = mpctx.stop_play]
    /\ pc' = "queued"

\* dt: the time since start_timestamp.
SeekExecute ==
    /\ pc \in {"queued", "deferred"}
    /\ mpctx.seek.type # MPSEEK_NONE
    /\ \E demux_ok \in BOOLEAN, dt \in {0, SeekDelay} :
          mpctx' = [execute_queued_seek([Begin(mpctx) EXCEPT !.elapsed = dt],
                                        demux_ok)
                    EXCEPT !.waited = dt, !.demux_answer = demux_ok]
    /\ pc' = IF mpctx'.seek.type # MPSEEK_NONE THEN "deferred" ELSE "executed"

InitSeek ==
    /\ pc = "idle"
    /\ \E x \in SeekStates, h \in HrSeekOpts, o \in HrSeekDemuxerOffsets,
          t \in SeekTracks, pts \in {MP_NOPTS_VALUE} \cup PtsVals,
          d \in BOOLEAN :
          mpctx = [InitCtx([DefaultCfg EXCEPT !.opts.hr_seek = h,
                                              !.opts.hr_seek_demuxer_offset = o,
                                              !.tracks = t, !.demuxer = d])
                   EXCEPT !.stop_play = x.stop_play,
                          !.video_status = x.video_status,
                          !.hrseek_active = x.hrseek_active,
                          !.playback_pts = pts]

NextSeek ==
    \/ SeekQueue
    \/ SeekExecute

SpecSeek == InitSeek /\ [][NextSeek]_vars

(***************************************************************************)
(* The seek planner in both settings at once: inside the tick of a file    *)
(* played from its start, and called wherever it may find the player.      *)
(***************************************************************************)
SpecPlanner == (Init \/ InitSeek) /\ [][Next \/ NextSeek]_vars

(***************************************************************************)
(* The callers of set_pause_state(): pc names the last one, "set" for a    *)
(* direct call, "again" for the same call made once more, "cache" for the  *)
(* cache handler's re-arbitration, "step" for add_step_frame().            *)
(***************************************************************************)
PauseConfigs ==
    {[ao |-> a, ao_chain |-> ac, vo_chain |-> v, pause |-> p, restart_complete |-> r] :
        a \in BOOLEAN, ac \in BOOLEAN, v \in BOOLEAN, p \in BOOLEAN,
        r \in BOOLEAN}

PauseSet ==
    /\ \E p \in BOOLEAN : mpctx' = set_pause_state(Begin(mpctx), p)
    /\ pc' = "set"

\* The log goes on from the first call's.
PauseAgain ==
    /\ pc = "set"
    /\ mpctx' = set_pause_state(mpctx, mpctx.opts.pause)
    /\ pc' = "again"

PauseCache ==
    /\ \E s \in ReaderStates : mpctx' = cache_pause_arbitrate(Begin(mpctx), s)
    /\ pc' = "cache"

PauseStep ==
    /\ mpctx.step_frames < MaxStepFrames
    /\ \E dir \in {-1, 1} : mpctx' = add_step_frame(Begin(mpctx), dir)
    /\ pc' = "step"

InitPause ==
    /\ pc = "idle"
    /\ \E x \in PauseConfigs :
          mpctx = update_core_idle_state_silent(
                      [InitCtx([DefaultCfg EXCEPT !.opts.pause = x.pause,
                                                  !.ao_chain = x.ao_chain,
                                                  !.vo_chain = x.vo_chain])
                       EXCEPT !.ao = x.ao,
                              !.restart_complete = x.restart_complete,
                              !.video_status = IF x.vo_chain /\ x.restart_complete
                                               THEN STATUS_PLAYING ELSE @,
                              !.audio_status = IF x.ao_chain /\ x.restart_complete
                                               THEN STATUS_PLAYING ELSE @])

NextPause ==
    \/ PauseSet
    \/ PauseAgain
    \/ PauseCache
    \/ PauseStep

SpecPause == InitPause /\ [][NextPause]_vars

(***************************************************************************)
(* The cache handler against a demuxer whose reader state changes between  *)
(* the passes, a user who pauses and who switches cache_pause.             *)
(***************************************************************************)
CacheConfigs ==
    {[cache_pause |-> cp, pause |-> p, restart_complete |-> r, is_network |-> n,
      ao_chain |-> a] :
        cp \in BOOLEAN, p \in BOOLEAN, r \in BOOLEAN, n \in BOOLEAN,
        a \in BOOLEAN}

\* Besides ReaderStates: reading, no underrun, not yet enough buffered.
CacheReaderStates ==
    ReaderStates \cup {[idle |-> FALSE, underrun |-> FALSE, ts_duration |-> 0]}

CacheStreamInfos == CacheInfos \cup {[idle |-> FALSE, size |-> 1]}

CacheDemuxer ==
    /\ \E s \in CacheReaderStates, c \in CacheStreamInfos :
          mpctx' = [mpctx EXCEPT !.reader = s, !.stream_cache = c]
    /\ pc' = "demuxer"

CachePass ==
    /\ \E due \in BOOLEAN, dt \in {MaxTimeout} :
          mpctx' = handle_pause_on_low_cache(Begin(mpctx), mpctx.stream_cache,
                                             mpctx.reader, due, dt)
    /\ pc' = "passed"

CacheUserPause ==
    /\ \E p \in BOOLEAN : mpctx' = set_pause_state(Begin(mpctx), p)
    /\ pc' = "command"

CacheOption ==
    /\ mpctx' = [mpctx EXCEPT !.opts.cache_pause = ~@]
    /\ pc' = "option"

InitCache ==
    /\ pc = "idle"
    /\ \E x \in CacheConfigs :
          mpctx = update_core_idle_state_silent(
                      [InitCtx([DefaultCfg EXCEPT !.opts.cache_pause = x.cache_pause,
                                                  !.opts.pause = x.pause,
                                                  !.is_network = x.is_network,
                                                  !.ao_chain = x.ao_chain])
                       EXCEPT !.restart_complete = x.restart_complete,
                              !.video_status = IF x.restart_complete
                                               THEN STATUS_PLAYING ELSE @,
                              !.audio_status = IF x.ao_chain /\ x.restart_complete
                                               THEN STATUS_PLAYING ELSE @])

NextCache ==
    \/ CacheDemuxer
    \/ CachePass
    \/ CacheUserPause
    \/ CacheOption

SpecCache == InitCache /\ [][NextCache]_vars

(***************************************************************************)
(* Buffered startup: audio and video become ready, the restart             *)
(* synchronizer runs, and the cache handler passes while the demuxer       *)
(* reads.  The stream cache is the one the file was opened with.           *)
(* initial_buffering records that paused_for_cache was set by the restart  *)
(* synchronizer and not cleared since.                                     *)
(***************************************************************************)
BufferConfigs ==
    {[cache_pause_initial |-> ci, cache_pause |-> cp, pause |-> p,
      is_network |-> n, stream_cache |-> c, ao_chain |-> a] :
        ci \in BOOLEAN, cp \in BOOLEAN, p \in BOOLEAN, n \in BOOLEAN,
        c \in CacheStreamInfos, a \in BOOLEAN}

BufferRestart ==
    /\ pc \in {"ready", "demuxer"}
    /\ ~mpctx.restart_complete
    /\ \E demux_ok \in BOOLEAN :
          \E m1 \in {handle_playback_restart(Begin(mpctx), demux_ok)} :
             mpctx' = [m1 EXCEPT !.initial_buffering =
                                     m1.paused_for_cache /\ ~mpctx.paused_for_cache]
    /\ pc' = "restarted"

BufferDemuxer ==
    /\ \E s \in CacheReaderStates : mpctx' = [mpctx EXCEPT !.reader = s]
    /\ pc' = "demuxer"

BufferPass ==
    /\ \E due \in BOOLEAN, dt \in {MaxTimeout} :
          \E m1 \in {handle_pause_on_low_cache(Begin(mpctx), mpctx.stream_cache,
                                                mpctx.reader, due, dt)} :
             mpctx' = [m1 EXCEPT !.initial_buffering = @ /\ m1.paused_for_cache]
    /\ pc' = "passed"

InitBuffer ==
    /\ pc = "ready"
    /\ \E x \in BufferConfigs :
          mpctx = update_core_idle_state_silent(
                      [InitCtx([DefaultCfg EXCEPT !.opts.cache_pause_initial = x.cache_pause_initial,
                                                  !.opts.cache_pause = x.cache_pause,
                                                  !.opts.pause = x.pause,
                                                  !.is_network = x.is_network,
                                                  !.ao_chain = x.ao_chain])
                       EXCEPT !.stream_cache = x.stream_cache,
                              !.video_status = STATUS_READY,
                              !.audio_status = IF x.ao_chain THEN STATUS_READY
                                               ELSE STATUS_EOF])

NextBuffer ==
    \/ BufferRestart
    \/ BufferDemuxer
    \/ BufferPass

SpecBuffer == InitBuffer /\ [][NextBuffer]_vars

(***************************************************************************)
(* The end-of-file handlers of one tick, one after the other, up to the    *)
(* decision to return: pc names the handler that runs next, then           *)
(* "returned" or "continued".                                              *)
(***************************************************************************)
MaxLoops == 2

EofConfigs ==
    {[keep_open |-> k, keep_open_pause |-> kp, loop_times |-> lt, loop_file |-> lf,
      pause |-> p, playlist_has_next |-> n, vo_chain |-> v, max_frames |-> f,
      restart_complete |-> r, audio_status |-> a] :
        k \in {0, 1, 2}, kp \in BOOLEAN, lt \in {1, 2}, lf \in {0, 1},
        p \in BOOLEAN, n \in BOOLEAN, v \in BOOLEAN, f \in {-1, 0},
        r \in BOOLEAN, a \in {STATUS_PLAYING, STATUS_EOF}}

keep_open_applies(m) ==
    /\ m.opts.keep_open # 0 /\ m.stop_play = AT_END_OF_FILE
    /\ (m.opts.keep_open = 2 \/ ~m.playlist_has_next)
    /\ m.opts.loop_times = 1

EofDetect ==
    /\ pc = "handle_eof"
    /\ \E vo_has_frame \in BOOLEAN :
          mpctx' = [handle_eof(Begin(mpctx), vo_has_frame)
                    EXCEPT !.vo_has_frame = mpctx.video_out /\ vo_has_frame]
    /\ pc' = "handle_loop_file"

ab_loop_set(m) ==
    m.opts.ab_loop[1] # MP_NOPTS_VALUE \/ m.opts.ab_loop[2] # MP_NOPTS_VALUE

loop_file_applies(m) ==
    ~ab_loop_set(m) /\ m.opts.loop_file # 0 /\ m.stop_play = AT_END_OF_FILE

EofLoopFile ==
    /\ pc = "handle_loop_file"
    /\ mpctx' = [handle_loop_file(Begin(mpctx))
                 EXCEPT !.looped = IF loop_file_applies(mpctx)
                                   THEN MPMIN(@ + 1, MaxLoops + 1) ELSE @,
                        !.loop_seek = mpctx.stop_play = AT_END_OF_FILE
                                      /\ (ab_loop_set(mpctx)
                                          \/ mpctx.opts.loop_file # 0)]
    /\ pc' = "handle_keep_open"

EofKeepOpen ==
    /\ pc = "handle_keep_open"
    /\ \E vo_has_frame \in BOOLEAN, demux_ok \in BOOLEAN :
          mpctx' = [handle_keep_open(Begin(mpctx), vo_has_frame, demux_ok)
                    EXCEPT !.kept_open = keep_open_applies(mpctx)]
    /\ pc' = "handle_sstep"

EofSstep ==
    /\ pc = "handle_sstep"
    /\ mpctx' = update_core_idle_state(handle_sstep(Begin(mpctx)))
    /\ pc' = IF mpctx'.stop_play # KEEP_PLAYING THEN "returned" ELSE "continued"

InitEof ==
    /\ pc = "handle_eof"
    /\ \E x \in EofConfigs :
          mpctx = update_core_idle_state_silent(
                      [InitCtx([DefaultCfg EXCEPT !.opts.keep_open = x.keep_open,
                                                  !.opts.keep_open_pause = x.keep_open_pause,
                                                  !.opts.loop_times = x.loop_times,
                                                  !.opts.loop_file = x.loop_file,
                                                  !.opts.pause = x.pause,
                                                  !.playlist_has_next = x.playlist_has_next,
                                                  !.vo_chain = x.vo_chain,
                                                  !.max_frames = x.max_frames])
                       EXCEPT !.restart_complete = x.restart_complete,
                              !.video_status = STATUS_EOF,
                              !.audio_status = x.audio_status,
                              !.playback_pts = 0])

NextEof ==
    \/ EofDetect
    \/ EofLoopFile
    \/ EofKeepOpen
    \/ EofSstep

SpecEof == InitEof /\ [][NextEof]_vars

(***************************************************************************)
(* The same handlers met in any state a tick can bring them: with or       *)
(* without chains, a video output kept without a video chain, either       *)
(* status short of EOF, and a stop already requested.                      *)
(***************************************************************************)
DetectConfigs ==
    {[ao_chain |-> a, vo_chain |-> v, video_out |-> w, pause |-> p,
      audio_status |-> as, video_status |-> vs, stop_play |-> sp,
      keep_open |-> k, loop_file |-> lf] :
        a \in BOOLEAN, v \in BOOLEAN, w \in BOOLEAN, p \in BOOLEAN,
        as \in {STATUS_PLAYING, STATUS_EOF}, vs \in {STATUS_PLAYING, STATUS_EOF},
        sp \in {KEEP_PLAYING, PT_QUIT, PT_ERROR, PT_NEXT_ENTRY, PT_CURRENT_ENTRY},
        k \in {0, 1}, lf \in {0, 1}}

DetectCtx(x) ==
    update_core_idle_state_silent(
        [InitCtx([DefaultCfg EXCEPT !.opts.pause = x.pause,
                                    !.opts.keep_open = x.keep_open,
                                    !.opts.loop_file = x.loop_file,
                                    !.ao_chain = x.ao_chain,
                                    !.vo_chain = x.vo_chain])
         EXCEPT !.video_out = x.video_out,
                !.restart_complete = TRUE,
                !.video_status = x.video_status,
                !.audio_status = x.audio_status,
                !.stop_play = x.stop_play,
                !.playback_pts = MaxPts])

InitDetect ==
    /\ pc = "handle_eof"
    /\ \E x \in DetectConfigs :
          /\ x.vo_chain => x.video_out
          /\ ~x.ao_chain => x.audio_status = STATUS_EOF
          /\ ~x.vo_chain => x.video_status = STATUS_EOF
          /\ mpctx = DetectCtx(x)

SpecDetect == InitDetect /\ [][NextEof]_vars

(***************************************************************************)
(* Everything in this file that assigns stop_play, met with a stop request *)
(* pending or not: the filter graph and the end-of-file handlers of a      *)
(* tick, and the seek planner.                                             *)
(***************************************************************************)
StopLavfi ==
    /\ pc = "lavfi"
    /\ \E progress \in BOOLEAN, failed \in BOOLEAN :
          mpctx' = lavfi_pump(Begin(mpctx), progress, failed)
    /\ pc' = "handle_eof"

InitStop ==
    \/ /\ pc = "lavfi"
       /\ \E x \in DetectConfigs, l \in BOOLEAN :
             /\ x.vo_chain /\ x.video_out /\ x.ao_chain
             /\ mpctx = [DetectCtx(x) EXCEPT !.lavfi = l]
    \/ InitSeek

SpecStop == InitStop /\ [][StopLavfi \/ NextEof \/ NextSeek]_vars

(***************************************************************************)
(* A file played to its end again and again: after the end-of-file         *)
(* handlers the tick executes the queued seek ("seeked") and playback      *)
(* runs to the end once more.                                              *)
(***************************************************************************)
\* A and B of --ab-loop.
AbLoops ==
    {<<MP_NOPTS_VALUE, MP_NOPTS_VALUE>>, <<1, MaxPts>>,
     <<MP_NOPTS_VALUE, MaxPts>>, <<1, MP_NOPTS_VALUE>>}

LoopConfigs ==
    {[loop_file |-> lf, ab_loop |-> ab, vo_chain |-> v, audio_status |-> a] :
        lf \in {-1} \cup 0..MaxLoops, ab \in AbLoops, v \in BOOLEAN,
        a \in {STATUS_PLAYING, STATUS_EOF}}

LoopExecuteSeek ==
    /\ pc = "continued"
    /\ \E demux_ok \in BOOLEAN :
          mpctx' = execute_queued_seek([Begin(mpctx) EXCEPT !.elapsed = SeekDelay],
                                       demux_ok)
    /\ pc' = "seeked"

\* Audio and video restart and reach their end.
LoopPlayToEnd ==
    /\ pc = "seeked"
    /\ mpctx' = update_core_idle_state(
                    [Begin(mpctx) EXCEPT !.restart_complete = TRUE,
                                         !.hrseek_active = FALSE,
                                         !.video_status = STATUS_EOF,
                                         !.audio_status = STATUS_EOF,
                                         !.playback_pts = MaxPts])
    /\ pc' = "handle_eof"

InitLoop ==
    /\ pc = "handle_eof"
    /\ \E x \in LoopConfigs :
          mpctx = update_core_idle_state_silent(
                      [InitCtx([DefaultCfg EXCEPT !.opts.loop_file = x.loop_file,
                                                  !.opts.ab_loop = x.ab_loop,
                                                  !.vo_chain = x.vo_chain])
                       EXCEPT !.restart_complete = TRUE,
                              !.video_status = STATUS_EOF,
                              !.audio_status = x.audio_status,
                              !.playback_pts = MaxPts])

NextLoop ==
    \/ EofDetect
    \/ EofLoopFile
    \/ EofKeepOpen
    \/ EofSstep
    \/ LoopExecuteSeek
    \/ LoopPlayToEnd

SpecLoop == InitLoop /\ [][NextLoop]_vars

(***************************************************************************)
(* A file kept open at its end, tick after tick: the end-of-file handlers, *)
(* then the commands and the queued seek of the same tick, then whatever   *)
(* playback the seek restarted runs to the end again.  lastframe_sought    *)
(* records that seek_to_last_frame() has called the demuxer since the last *)
(* seek of the user that reset playback.                                   *)
(***************************************************************************)
KeepOpenConfigs ==
    {[keep_open |-> k, keep_open_pause |-> kp, correct_pts |-> c,
      duration |-> d, vo_chain |-> v] :
        k \in {0, 1}, kp \in BOOLEAN, c \in BOOLEAN, d \in {-1, MaxPts},
        v \in BOOLEAN}

KeepOpenPass ==
    /\ pc = "handle_keep_open"
    /\ \E vo_has_frame \in BOOLEAN, demux_ok \in BOOLEAN :
          \E m1 \in {handle_keep_open(Begin(mpctx), vo_has_frame, demux_ok)} :
             mpctx' = [m1 EXCEPT !.kept_open = keep_open_applies(mpctx),
                                 !.lastframe_sought =
                                     @ \/ Emitted(m1, "demux_seek")]
    /\ pc' = "handle_sstep"

\* mp_process_input(): the user seeks, in any of the ways that have a
\* target, or does nothing.
TickInput ==
    /\ pc = "continued"
    /\ \/ \E c \in {x \in SeekCalls : x.amount # MP_NOPTS_VALUE
                                       /\ x.type # MPSEEK_FACTOR} :
             mpctx' = queue_seek(Begin(mpctx), c.type, c.amount, c.exact, c.flags)
       \/ mpctx' = Begin(mpctx)
    /\ pc' = "input"

KeepOpenExecuteSeek ==
    /\ pc = "input"
    /\ \E demux_ok \in BOOLEAN :
          \E m1 \in {execute_queued_seek([Begin(mpctx) EXCEPT !.elapsed = SeekDelay],
                                         demux_ok)} :
             mpctx' = [m1 EXCEPT !.lastframe_sought =
                                     @ /\ ~Emitted(m1, "reset")]
    /\ pc' = "seeked"

InitKeepOpen ==
    /\ pc = "handle_eof"
    /\ \E x \in KeepOpenConfigs :
          mpctx = update_core_idle_state_silent(
                      [InitCtx([DefaultCfg EXCEPT !.opts.keep_open = x.keep_open,
                                                  !.opts.keep_open_pause = x.keep_open_pause,
                                                  !.opts.correct_pts = x.correct_pts,
                                                  !.duration = x.duration,
                                                  !.vo_chain = x.vo_chain])
                       EXCEPT !.restart_complete = TRUE,
                              !.video_status = STATUS_EOF,
                              !.audio_status = STATUS_EOF,
                              !.playback_pts = MaxPts])

NextKeepOpen ==
    \/ EofDetect
    \/ EofLoopFile
    \/ KeepOpenPass
    \/ EofSstep
    \/ TickInput
    \/ KeepOpenExecuteSeek
    \/ LoopPlayToEnd

SpecKeepOpen == InitKeepOpen /\ [][NextKeepOpen]_vars

(***************************************************************************)
(* The whole tail of the ticks of a looping file: the end-of-file          *)
(* handlers, the commands of the user, who may seek while the loop seek is *)
(* pending, and the queued seek, any time after the last one; then         *)
(* playback runs to the end again.  loop_seek records that                 *)
(* handle_loop_file() queued a seek in this tick.                          *)
(***************************************************************************)
WrapConfigs ==
    {[loop_file |-> lf, ab_loop |-> ab, vo_chain |-> v, step_sec |-> ss,
      pause |-> p] :
        lf \in {-1, 0, 1}, ab \in AbLoops, v \in BOOLEAN, ss \in {0, 1},
        p \in BOOLEAN}

WrapExecuteSeek ==
    /\ pc = "input"
    /\ \E demux_ok \in BOOLEAN, dt \in {0, SeekDelay} :
          mpctx' = execute_queued_seek([Begin(mpctx) EXCEPT !.elapsed = dt],
                                       demux_ok)
    /\ pc' = "seeked"

InitWrap ==
    /\ pc = "handle_eof"
    /\ \E x \in WrapConfigs :
          mpctx = update_core_idle_state_silent(
                      [InitCtx([DefaultCfg EXCEPT !.opts.loop_file = x.loop_file,
                                                  !.opts.ab_loop = x.ab_loop,
                                                  !.opts.step_sec = x.step_sec,
                                                  !.opts.pause = x.pause,
                                                  !.vo_chain = x.vo_chain])
                       EXCEPT !.restart_complete = TRUE,
                              !.video_status = STATUS_EOF,
                              !.audio_status = STATUS_EOF,
                              !.playback_pts = MaxPts])

NextWrap ==
    \/ EofDetect
    \/ EofLoopFile
    \/ EofKeepOpen
    \/ EofSstep
    \/ TickInput
    \/ WrapExecuteSeek
    \/ LoopPlayToEnd

SpecWrap == InitWrap /\ [][NextWrap]_vars

(***************************************************************************)
(* Properties.                                                             *)
(***************************************************************************)
\* C1: after every completed operation (a command's set_pause_state, a cache
\* handler pass, a restart synchronizer pass, every handler of a tick) the
\* effective pause flag is paused = (opts.pause OR paused_for_cache).
C1_PausedIsUserOrCache ==
    mpctx.paused = (mpctx.opts.pause \/ mpctx.paused_for_cache)

\* A cache handler pass has just paused playback the user did not pause.
C1_Witness ==
    /\ pc = "input"
    /\ Emitted(mpctx, "CACHE_UPDATE")
    /\ mpctx.paused_for_cache /\ ~mpctx.opts.pause /\ mpctx.paused

\* C2: at a tick boundary (run_playloop() has returned or is about to sleep
\* in mp_wait_events()) playback_active = (NOT paused AND restart_complete
\* AND playing AND in_playloop AND NOT (video_status = EOF AND audio_status =
\* EOF)), and CORE_IDLE is emitted exactly when playback_active changes: an
\* operation emits an odd number of CORE_IDLE events exactly when it leaves
\* playback_active changed.
C2_CoreIdle ==
    /\ [](pc \in {"returned", "wait", "top"} =>
            mpctx.playback_active =
                (/\ ~mpctx.paused /\ mpctx.restart_complete
                 /\ mpctx.playing /\ mpctx.in_playloop
                 /\ ~(mpctx.video_status = STATUS_EOF
                      /\ mpctx.audio_status = STATUS_EOF)))
    /\ [][(Count(mpctx', "CORE_IDLE") % 2 = 1)
              <=> (mpctx'.playback_active # mpctx.playback_active)]_vars

\* A tick ends after a restart with playback_active turned false and
\* CORE_IDLE sent.
C2_Witness ==
    /\ pc \in {"returned", "wait"}
    /\ Emitted(mpctx, "CORE_IDLE")
    /\ ~mpctx.playback_active
    /\ mpctx.restart_complete

\* C3: whenever restart_complete is true, audio_status >= PLAYING or there
\* is no audio chain, and video_status >= PLAYING or there is no video chain;
\* the restart synchronizer never sets restart_complete below that.
C3_RestartCompleteStatuses ==
    mpctx.restart_complete =>
        /\ mpctx.audio_status >= STATUS_PLAYING \/ ~mpctx.ao_chain
        /\ mpctx.video_status >= STATUS_PLAYING \/ ~mpctx.vo_chain

\* The restart synchronizer has just completed a restart of audio and video.
C3_Witness ==
    /\ pc = "policy"
    /\ Emitted(mpctx, "PLAYBACK_RESTART")
    /\ mpctx.restart_complete
    /\ mpctx.audio_status = STATUS_PLAYING /\ mpctx.video_status = STATUS_PLAYING

\* C4: hrseek_active and restart_complete are never both true.
C4_HrseekExcludesRestartComplete ==
    ~(mpctx.hrseek_active /\ mpctx.restart_complete)

\* seek_to_last_frame() has activated an hr-seek at the end of a file that
\* had been playing.
C4_Witness ==
    /\ mpctx.hrseek_active /\ mpctx.hrseek_lastframe
    /\ Emitted(mpctx, "reset")
    /\ ~mpctx.restart_complete

\* C5 (as the code has it): PLAYBACK_RESTART is emitted at most once between
\* one reset of playback state and the next, and only by an operation that
\* leaves both audio_status and video_status at PLAYING or beyond.
C5_RestartAtMostOnce ==
    /\ mpctx.restarts <= 1
    /\ Emitted(mpctx, "PLAYBACK_RESTART") =>
          /\ Count(mpctx, "PLAYBACK_RESTART") = 1
          /\ mpctx.restarts = 1
          /\ mpctx.audio_status >= STATUS_PLAYING
          /\ mpctx.video_status >= STATUS_PLAYING

\* PLAYBACK_RESTART is emitted for the restart that follows a seek.
C5_Witness ==
    /\ Emitted(mpctx, "PLAYBACK_RESTART")
    /\ mpctx.last_seek_pts # MP_NOPTS_VALUE
    /\ mpctx.restarts = 1

\* C5 as stated: exactly one PLAYBACK_RESTART between one reset of playback
\* state and the next, so every reset finds one emitted since the last.
C5_RestartExactlyOnce ==
    [][Emitted(mpctx', "reset") => mpctx.restarts = 1]_vars

\* C6: the timeout mp_wait_events() hands to mp_dispatch_queue_process() is
\* the minimum of the values passed to mp_set_timeout() since the previous
\* mp_wait_events() returned, INFINITY if there were none; right after
\* mp_wait_events() returns sleeptime is INFINITY.
C6_TimeoutIsMinimum ==
    /\ pc = "loop" => mpctx.sleeptime = MinOrInf(mpctx.requested)
    /\ pc \in {"process", "asleep"} =>
          mpctx.proc_timeout = MinOrInf(mpctx.requested)

\* Two different timeouts were asked for and the smaller one is waited for.
C6_Witness ==
    /\ pc = "asleep"
    /\ Cardinality(mpctx.requested) >= 2
    /\ mpctx.proc_timeout = 1

\* C7: a callback that calls mp_set_timeout() with a finite value inside
\* mp_wait_events() posts an interrupt, so the queue does not sleep on;
\* in_dispatch is true exactly while mp_wait_events() drains the queue.
C7_CallbackTimeoutInterrupts ==
    /\ mpctx.in_dispatch <=> pc \in {"process", "asleep"}
    /\ mpctx.cb_finite => mpctx.interrupted /\ pc # "asleep"

\* The queue slept on a longer timeout and a callback asked for a shorter one.
C7_Witness ==
    /\ mpctx.cb_finite /\ mpctx.blocked
    /\ mpctx.sleeptime < mpctx.proc_timeout

C9_RelativeCoalesce ==
    LET q == mpctx.queued
        p == mpctx.queued.prev
    IN  /\ q.called /\ q.type = MPSEEK_RELATIVE /\ p.type = MPSEEK_NONE =>
              mpctx.seek = [type |-> MPSEEK_RELATIVE, amount |-> q.amount,
                            exact |-> q.exact, flags |-> q.flags]
        /\ q.called /\ q.type = MPSEEK_RELATIVE
              /\ p.type \in {MPSEEK_RELATIVE, MPSEEK_ABSOLUTE} =>
              mpctx.seek = [type |-> p.type, amount |-> p.amount + q.amount,
                            exact |-> MPMAX(p.exact, q.exact),
                            flags |-> p.flags \cup q.flags]
        /\ \A a \in SeekAmounts, b \in SeekAmounts, e \in SeekPrecisions,
              f \in SUBSET SeekFlags :
              queue_seek(queue_seek(mpctx, MPSEEK_RELATIVE, a, e, f),
                         MPSEEK_RELATIVE, b, e, f).seek
                  = queue_seek(mpctx, MPSEEK_RELATIVE, a + b, e, f).seek

\* A relative seek was merged into a pending relative seek of higher
\* precision and other flags.
C9_Witness ==
    /\ mpctx.queued.called
    /\ mpctx.queued.type = MPSEEK_RELATIVE
    /\ mpctx.queued.prev.type = MPSEEK_RELATIVE
    /\ mpctx.queued.prev.exact > mpctx.queued.exact
    /\ mpctx.queued.prev.flags = {MPSEEK_FLAG_DELAY}
    /\ mpctx.queued.flags = {MPSEEK_FLAG_NOFLUSH}
    /\ mpctx.seek.amount = 2 * MaxAmount

\* C10: after queue_seek(T, x, e, f) with T ABSOLUTE, FACTOR or BACKSTEP the
\* pending record is exactly (T, x, e, f), whatever was pending; after
\* queue_seek(NONE, ...) it is empty.
C10_Supersede ==
    LET q == mpctx.queued
    IN  /\ q.called /\ q.type \in {MPSEEK_ABSOLUTE, MPSEEK_FACTOR, MPSEEK_BACKSTEP}
              => mpctx.seek = [type |-> q.type, amount |-> q.amount,
                               exact |-> q.exact, flags |-> q.flags]
        /\ q.called /\ q.type = MPSEEK_NONE =>
              mpctx.seek = [type |-> MPSEEK_NONE, amount |-> 0,
                            exact |-> MPSEEK_DEFAULT, flags |-> {}]

\* An absolute seek of lower precision and without flags replaced a pending
\* relative seek that had both flags.
C10_Witness ==
    /\ mpctx.queued.called
    /\ mpctx.queued.type = MPSEEK_ABSOLUTE
    /\ mpctx.queued.prev.type = MPSEEK_RELATIVE
    /\ mpctx.queued.prev.flags = SeekFlags
    /\ mpctx.queued.flags = {}
    /\ mpctx.queued.prev.exact > mpctx.queued.exact

\* C11: a queue_seek(RELATIVE, ...) that finds a FACTOR seek pending leaves
\* the pending record (type, amount, exact and flags) exactly as it was.
C11_RelativeIntoFactorIgnored ==
    mpctx.queued.called /\ mpctx.queued.type = MPSEEK_RELATIVE
        /\ mpctx.queued.prev.type = MPSEEK_FACTOR
    => mpctx.seek = mpctx.queued.prev

\* C12: every queue_seek() call, of whatever type, wakes the loop and turns
\* stop_play = AT_END_OF_FILE into KEEP_PLAYING; every other stop_play value
\* is left as the call found it.
C12_QueueSeekWakesAndResumes ==
    pc = "queued"
    => /\ mpctx.interrupted
       /\ mpctx.stop_play = IF mpctx.stop_found = AT_END_OF_FILE
                             THEN KEEP_PLAYING ELSE mpctx.stop_found

\* A call at end of file has put the player back to KEEP_PLAYING.
C12_Witness ==
    /\ pc = "queued"
    /\ mpctx.stop_found = AT_END_OF_FILE
    /\ mpctx.stop_play = KEEP_PLAYING
    /\ mpctx.interrupted

\* C13: execute_queued_seek() with a seek pending defers exactly when the
\* seek has the DELAY flag, video_status < PLAYING, less than 0.3 s have
\* passed since start_timestamp, and it is not the case that an hr-seek is
\* active and the pending exactness is KEYFRAME.  A deferring call keeps
\* the pending record and resets no playback state; every other call
\* returns with the pending record empty.
C13_Defers ==
    /\ MPSEEK_FLAG_DELAY \in mpctx.seek.flags
    /\ mpctx.video_status < STATUS_PLAYING
    /\ mpctx'.waited < SeekDelay
    /\ ~(mpctx.hrseek_active /\ mpctx.seek.exact = MPSEEK_KEYFRAME)

C13_DeferExactly ==
    [][pc' \in {"deferred", "executed"} /\ mpctx.seek.type # MPSEEK_NONE
       => IF C13_Defers
          THEN /\ mpctx'.seek = mpctx.seek
               /\ ~Emitted(mpctx', "reset") /\ ~Emitted(mpctx', "demux_seek")
               /\ mpctx' = [Begin(mpctx) EXCEPT !.elapsed = mpctx'.waited,
                                                !.waited = mpctx'.waited,
                                                !.demux_answer = mpctx'.demux_answer]
          ELSE mpctx'.seek = seek_params_zero]_vars

\* A delayed seek was deferred.
C13_Witness ==
    /\ pc = "deferred"
    /\ mpctx.seek.type # MPSEEK_NONE
    /\ MPSEEK_FLAG_DELAY \in mpctx.seek.flags
    /\ mpctx.waited < SeekDelay

\* C14: whenever mp_seek() activates hr-seek, the seek it records as
\* current_seek has exact >= EXACT.
C14_HrseekIsExact ==
    pc = "executed" /\ Emitted(mpctx, "SEEK") /\ mpctx.hrseek_active
    => mpctx.current_seek.exact >= MPSEEK_EXACT

\* C14, amended: whenever mp_seek() activates hr-seek, the seek it records
\* as current_seek has an exact other than KEYFRAME, and has exact >= EXACT
\* unless hr_seek is "yes" or hr_seek is "absolute" and the seek is ABSOLUTE.
C14_HrseekNotKeyframe ==
    pc = "executed" /\ Emitted(mpctx, "SEEK") /\ mpctx.hrseek_active
    => /\ mpctx.current_seek.exact # MPSEEK_KEYFRAME
       /\ \/ mpctx.current_seek.exact >= MPSEEK_EXACT
          \/ mpctx.opts.hr_seek > 0
          \/ mpctx.opts.hr_seek = 0 /\ mpctx.current_seek.type = MPSEEK_ABSOLUTE

\* An absolute seek of default precision became an hr-seek.
C14_Witness ==
    /\ pc = "executed" /\ Emitted(mpctx, "SEEK") /\ mpctx.hrseek_active
    /\ mpctx.current_seek.exact = MPSEEK_DEFAULT
    /\ mpctx.current_seek.type = MPSEEK_ABSOLUTE
    /\ mpctx.opts.hr_seek = 0

\* C15: for every seek for which hr-seek is chosen, whatever
\* hr_seek_demuxer_offset and the tracks are, the timestamp passed to the
\* demuxer is <= the requested seek_pts, and at most seek_pts - 0.5 s when
\* the seek is VERY_EXACT or BACKSTEP.
C15_HrseekOffsetMonotonic ==
    pc = "executed" /\ Emitted(mpctx, "SEEK") /\ mpctx.hrseek_active
    => /\ mpctx.demux_pts <= mpctx.hrseek_pts
       /\ mpctx.current_seek.exact = MPSEEK_VERY_EXACT
             \/ mpctx.current_seek.type = MPSEEK_BACKSTEP
          => mpctx.demux_pts <= mpctx.hrseek_pts - HalfSecond

\* The PAUSE and UNPAUSE events of the log.
PauseEvents(m) == Count(m, "PAUSE") + Count(m, "UNPAUSE")

\* C16: set_pause_state(p) called twice in a row emits at most one
\* PAUSE/UNPAUSE event in total, and the second call sends nothing to the
\* audio or video output and changes none of paused, step_frames, time_frame.
C16_PauseIdempotent ==
    /\ [](pc = "again" => PauseEvents(mpctx) <= 1)
    /\ [][pc' = "again"
          => /\ mpctx'.log = mpctx.log
             /\ mpctx'.paused = mpctx.paused
             /\ mpctx'.step_frames = mpctx.step_frames]_vars

\* The first of two calls paused, told both outputs and sent PAUSE; the
\* second has returned.
C16_Witness ==
    /\ pc = "again"
    /\ mpctx.paused /\ ~mpctx.paused_for_cache
    /\ mpctx.log = <<"ao_pause", "vo_set_paused(1)", "time_frame", "PAUSE">>

\* C17: set_pause_state() emits PAUSE or UNPAUSE iff opts.pause changed in
\* that call, a call that only re-arbitrates after paused_for_cache changed
\* emits neither, and the event is the one of the new opts.pause.
C17_EventMatches ==
    PauseEvents(mpctx') > 0
    => Emitted(mpctx', IF mpctx'.opts.pause THEN "PAUSE" ELSE "UNPAUSE")

C17_EventIffUserPause ==
    [][/\ pc' \in {"set", "step"}
          => /\ PauseEvents(mpctx') = IF mpctx'.opts.pause # mpctx.opts.pause
                                      THEN 1 ELSE 0
             /\ C17_EventMatches
       /\ pc' = "cache" => PauseEvents(mpctx') = 0]_vars

\* C17, amended: set_pause_state() emits PAUSE or UNPAUSE iff opts.pause or
\* the effective paused flag changed in that call, so a call that only
\* re-arbitrates after paused_for_cache changed emits one exactly when
\* paused changes; the event is the one of the new opts.pause.
C17_EventIffAnyPause ==
    [][pc' \in {"set", "step", "cache"}
       => /\ PauseEvents(mpctx') = IF mpctx'.opts.pause # mpctx.opts.pause
                                      \/ mpctx'.paused # mpctx.paused
                                   THEN 1 ELSE 0
          /\ C17_EventMatches]_vars

\* Entering the cache pause while the user has not paused sent UNPAUSE.
C17_Witness ==
    /\ pc = "cache"
    /\ mpctx.paused_for_cache /\ mpctx.paused /\ ~mpctx.opts.pause
    /\ Emitted(mpctx, "UNPAUSE")

\* C18: every change of the effective paused flag is propagated within the
\* operation that makes it: the audio output, when an audio output and an
\* audio chain exist, receives pause or resume, the video output, when it
\* exists, receives set_paused with the new value, and a change to paused
\* leaves step_frames at 0.
C18_PausePropagated ==
    [][mpctx'.paused # mpctx.paused
       => /\ mpctx'.ao /\ mpctx'.ao_chain
             => Emitted(mpctx', IF mpctx'.paused THEN "ao_pause" ELSE "ao_resume")
          /\ mpctx'.video_out
             => Emitted(mpctx', IF mpctx'.paused THEN "vo_set_paused(1)"
                                                ELSE "vo_set_paused(0)")
          /\ mpctx'.paused => mpctx'.step_frames = 0]_vars

\* A tick's handler has paused and both outputs were told.
C18_Witness ==
    /\ mpctx.paused
    /\ Emitted(mpctx, "ao_pause") /\ Emitted(mpctx, "vo_set_paused(1)")
    /\ mpctx.step_frames = 0

\* C19: for a cache-capable source after restart_complete, a cache handler
\* pass that sees underrun while cache_pause is enabled and the player is
\* not paused for cache sets paused_for_cache, makes paused true, pauses the
\* audio output and emits CACHE_UPDATE; while paused for cache, a pass that
\* sees no underrun and (cache_pause disabled, or the reader idle, or
\* ts_duration >= cache_pause_wait) clears paused_for_cache, restores paused
\* to opts.pause and emits CACHE_UPDATE; a pass that still sees underrun
\* keeps paused_for_cache.
C19_CacheCapable ==
    /\ mpctx.demuxer /\ mpctx.restart_complete
    /\ mpctx.stream_cache.size > 0 \/ mpctx.is_network

C19_CacheCycle ==
    [][pc' = "passed" /\ C19_CacheCapable
       => /\ mpctx.opts.cache_pause /\ ~mpctx.paused_for_cache
                /\ mpctx.reader.underrun
             => /\ mpctx'.paused_for_cache /\ mpctx'.paused
                /\ mpctx.ao /\ mpctx.ao_chain /\ ~mpctx.paused
                   => Emitted(mpctx', "ao_pause")
                /\ Emitted(mpctx', "CACHE_UPDATE")
          /\ mpctx.paused_for_cache /\ ~mpctx.reader.underrun
                /\ (~mpctx.opts.cache_pause \/ mpctx.reader.idle
                    \/ mpctx.reader.ts_duration >= mpctx.opts.cache_pause_wait)
             => /\ ~mpctx'.paused_for_cache
                /\ mpctx'.paused = mpctx'.opts.pause
                /\ mpctx'.opts.pause = mpctx.opts.pause
                /\ Emitted(mpctx', "CACHE_UPDATE")
          /\ mpctx.paused_for_cache /\ mpctx.reader.underrun
             => mpctx'.paused_for_cache]_vars

\* A pass has just left the cache pause that an earlier one had entered:
\* audio is resumed and the player plays again.
C19_Witness ==
    /\ pc = "passed"
    /\ ~mpctx.paused_for_cache /\ ~mpctx.paused
    /\ mpctx.reader.ts_duration >= mpctx.opts.cache_pause_wait
    /\ Emitted(mpctx, "ao_resume") /\ Emitted(mpctx, "CACHE_UPDATE")

C21_AbLoopWrap ==
    [][pc = "handle_loop_file" /\ mpctx.stop_play = AT_END_OF_FILE
          /\ ab_loop_set(mpctx)
       => /\ mpctx'.seek =
                [type |-> MPSEEK_ABSOLUTE,
                 amount |-> IF mpctx.opts.ab_loop[1] = MP_NOPTS_VALUE THEN 0
                            ELSE mpctx.opts.ab_loop[1],
                 exact |-> MPSEEK_EXACT, flags |-> {MPSEEK_FLAG_NOFLUSH}]
          /\ mpctx'.stop_play = KEEP_PLAYING
          /\ mpctx'.opts.loop_file = mpctx.opts.loop_file
          /\ mpctx'.looped = mpctx.looped]_vars

\* The end of a file with A-B loop and a loop_file counter: the seek to A
\* is pending and the counter is what it was.
C21_Witness ==
    /\ pc = "handle_keep_open"
    /\ mpctx.stop_play = KEEP_PLAYING
    /\ mpctx.opts.ab_loop[1] = 1
    /\ mpctx.seek = [type |-> MPSEEK_ABSOLUTE, amount |-> 1,
                     exact |-> MPSEEK_EXACT, flags |-> {MPSEEK_FLAG_NOFLUSH}]
    /\ mpctx.opts.loop_file = MaxLoops /\ mpctx.loop_file_set = MaxLoops

\* C24: with loop_file = N > 0 and no A-B endpoint, each end of file that
\* handle_loop_file() turns into a restart (ABSOLUTE seek to 0 with NOFLUSH,
\* stop_play back to KEEP_PLAYING) decrements loop_file by one; loop_file
\* never goes below 0, at most N restarts happen, at 0 an AT_END_OF_FILE is
\* left as it is, and a negative loop_file never changes.
C24_Counted ==
    /\ mpctx.loop_file_set >= 0
       => /\ mpctx.opts.loop_file >= 0
          /\ mpctx.looped <= mpctx.loop_file_set
          /\ mpctx.looped + mpctx.opts.loop_file = mpctx.loop_file_set
    /\ mpctx.loop_file_set < 0 => mpctx.opts.loop_file = mpctx.loop_file_set

C24_LoopFileCounter ==
    /\ []C24_Counted
    /\ [][pc = "handle_loop_file" /\ mpctx.stop_play = AT_END_OF_FILE
             /\ ~ab_loop_set(mpctx)
          => IF mpctx.opts.loop_file # 0
             THEN /\ mpctx'.seek = [type |-> MPSEEK_ABSOLUTE, amount |-> 0,
                                    exact |-> MPSEEK_DEFAULT,
                                    flags |-> {MPSEEK_FLAG_NOFLUSH}]
                  /\ mpctx'.stop_play = KEEP_PLAYING
                  /\ mpctx'.opts.loop_file =
                        IF mpctx.opts.loop_file > 0
                        THEN mpctx.opts.loop_file - 1 ELSE mpctx.opts.loop_file
             ELSE /\ mpctx'.stop_play = AT_END_OF_FILE
                  /\ mpctx'.seek = mpctx.seek
                  /\ mpctx'.opts.loop_file = 0]_vars

\* A file with loop_file = MaxLoops has restarted that many times and has
\* now ended for good.
C24_Witness ==
    /\ pc = "returned"
    /\ mpctx.loop_file_set = MaxLoops /\ mpctx.looped = MaxLoops
    /\ mpctx.opts.loop_file = 0
    /\ mpctx.stop_play = AT_END_OF_FILE

\* C23: a seek taken from the pending record that cannot be performed is
\* dropped without effect on playback.  When mp_seek() is a no-op (no
\* demuxer, amount NOPTS, RELATIVE with unknown current time; a pending
\* record of type NONE is not executed at all) the demuxer is not asked to
\* seek; in these cases and when the demuxer rejects the seek, the pending
\* record is cleared, restart_complete, hrseek_active, playback_pts,
\* last_seek_pts, current_seek and stop_play are unchanged, audio buffers are
\* not cleared and no SEEK event is emitted.
C23_Noop ==
    \/ ~mpctx.demuxer
    \/ mpctx.seek.amount = MP_NOPTS_VALUE
    \/ get_current_time(mpctx) = MP_NOPTS_VALUE /\ mpctx.seek.type = MPSEEK_RELATIVE

C23_DroppedSeek ==
    [][pc' \in {"deferred", "executed"} /\ ~C13_Defers
       => /\ C23_Noop => ~Emitted(mpctx', "demux_seek")
          /\ C23_Noop \/ ~mpctx'.demux_answer
             => /\ mpctx'.seek = seek_params_zero
                /\ mpctx'.restart_complete = mpctx.restart_complete
                /\ mpctx'.hrseek_active = mpctx.hrseek_active
                /\ mpctx'.playback_pts = mpctx.playback_pts
                /\ mpctx'.last_seek_pts = mpctx.last_seek_pts
                /\ mpctx'.current_seek = mpctx.current_seek
                /\ mpctx'.stop_play = mpctx.stop_play
                /\ ~Emitted(mpctx', "clear_audio_output_buffers")
                /\ ~Emitted(mpctx', "SEEK")]_vars

\* The demuxer has rejected a seek at end of file: the pending record is
\* empty and the player is still at end of file, a previous hr-seek active.
C23_Witness ==
    /\ pc = "executed"
    /\ ~mpctx.demux_answer /\ Emitted(mpctx, "demux_seek")
    /\ mpctx.seek = seek_params_zero
    /\ mpctx.hrseek_active /\ mpctx.stop_play = PT_ERROR

\* C22: every mp_seek() the demuxer accepts flushes before playback can
\* restart: on return restart_complete = false, playback_pts = NOPTS,
\* step_frames = 0, last_seek_pts = seek_pts, the audio output buffers were
\* cleared unless the seek has NOFLUSH, SEEK and then TICK were emitted,
\* and when hr-seek was chosen the demuxer was called with HR and without
\* FORWARD and hrseek_active = true with hrseek_pts = seek_pts; afterwards
\* restart_complete becomes true only in a restart synchronizer pass.
C22_SeekPts ==
    seek_target(mpctx, mpctx.seek,
                IF get_current_time(mpctx) = MP_NOPTS_VALUE THEN 0
                ELSE get_current_time(mpctx))

C22_Flushed ==
    /\ ~mpctx'.restart_complete
    /\ mpctx'.playback_pts = MP_NOPTS_VALUE
    /\ mpctx'.step_frames = 0
    /\ mpctx'.last_seek_pts = C22_SeekPts
    /\ mpctx'.current_seek = mpctx.seek
    /\ Emitted(mpctx', "clear_audio_output_buffers")
          <=> MPSEEK_FLAG_NOFLUSH \notin mpctx.seek.flags
    /\ Emitted(mpctx', "reset")
    /\ Len(mpctx'.log) >= 2
    /\ SubSeq(mpctx'.log, Len(mpctx'.log) - 1, Len(mpctx'.log)) = <<"SEEK", "TICK">>
    /\ Count(mpctx', "SEEK") = 1 /\ Count(mpctx', "TICK") = 1
    /\ use_hr_seek(mpctx, mpctx.seek, C22_SeekPts)
       => /\ "SEEK_HR" \in mpctx'.demux_flags
          /\ "SEEK_FORWARD" \notin mpctx'.demux_flags
          /\ mpctx'.hrseek_active
          /\ mpctx'.hrseek_pts = C22_SeekPts
    /\ ~use_hr_seek(mpctx, mpctx.seek, C22_SeekPts) => ~mpctx'.hrseek_active

C22_SeekFlushes ==
    /\ [][pc' \in {"deferred", "executed"} /\ ~C13_Defers /\ ~C23_Noop
             /\ mpctx'.demux_answer
          => C22_Flushed]_vars
    /\ [][pc = "seek" /\ Emitted(mpctx', "SEEK") => C22_Flushed]_vars
    /\ [][~mpctx.restart_complete /\ mpctx'.restart_complete
          => pc = "restart"]_vars

\* An hr-seek with NOFLUSH was committed without clearing the audio
\* buffers, after a restart had been complete.
C22_Witness ==
    /\ pc = "executed"
    /\ Emitted(mpctx, "SEEK") /\ ~Emitted(mpctx, "clear_audio_output_buffers")
    /\ mpctx.hrseek_active /\ mpctx.hrseek_pts = mpctx.last_seek_pts
    /\ MPSEEK_FLAG_NOFLUSH \in mpctx.current_seek.flags
    /\ ~mpctx.restart_complete

\* C25: once seek_to_last_frame() has called the demuxer, no later
\* keep-open pass calls it again until a seek of the user resets playback,
\* whether or not the first call activated hr-seek.
C25_LastFrameSeekOnce ==
    [][pc = "handle_keep_open" /\ mpctx.lastframe_sought
          => ~Emitted(mpctx', "demux_seek")]_vars

\* The same for the calls that did activate hr-seek, which set the guard.
C25_LastFrameSeekOnceWithHrseek ==
    [][pc = "handle_keep_open" /\ mpctx.hrseek_lastframe
          => ~Emitted(mpctx', "demux_seek")]_vars

C25_Witness ==
    /\ pc = "handle_keep_open" /\ mpctx.lastframe_sought
    /\ mpctx.hrseek_lastframe /\ mpctx.stop_play = AT_END_OF_FILE
    /\ mpctx.opts.keep_open # 0

\* C26: handle_eof() sets stop_play to AT_END_OF_FILE only when stop_play
\* is KEEP_PLAYING, an audio or video chain exists, audio_status and
\* video_status are both EOF and EOF is not prevented; it never does so
\* while the player is paused and the video output holds a frame, nor
\* when neither chain exists.
C26_EofDetector ==
    [][pc = "handle_eof"
       => /\ mpctx'.stop_play # mpctx.stop_play
             => /\ mpctx.stop_play = KEEP_PLAYING
                /\ mpctx'.stop_play = AT_END_OF_FILE
                /\ mpctx.ao_chain \/ mpctx.vo_chain
                /\ mpctx.audio_status = STATUS_EOF
                /\ mpctx.video_status = STATUS_EOF
                /\ ~(mpctx.paused /\ mpctx'.vo_has_frame)
          /\ (mpctx.paused /\ mpctx'.vo_has_frame)
               \/ (~mpctx.ao_chain /\ ~mpctx.vo_chain)
             => mpctx'.stop_play = mpctx.stop_play]_vars

\* The end of file was detected while paused, the video output having no
\* frame to hold.
C26_Witness ==
    /\ pc = "handle_loop_file"
    /\ mpctx.stop_play = AT_END_OF_FILE
    /\ mpctx.paused /\ mpctx.video_out /\ ~mpctx.vo_has_frame
    /\ mpctx.audio_status = STATUS_EOF /\ mpctx.video_status = STATUS_EOF

\* C27: when the restart synchronizer has set paused_for_cache for
\* cache_pause_initial, then for every kind of source a later pass of the
\* cache handler in which the reader is not underrunning and is idle or
\* has ts_duration >= cache_pause_wait clears paused_for_cache.
C27_Buffered ==
    /\ mpctx.initial_buffering /\ mpctx.paused_for_cache
    /\ mpctx.restart_complete
    /\ ~mpctx.reader.underrun
    /\ mpctx.reader.idle
       \/ mpctx.reader.ts_duration >= mpctx.opts.cache_pause_wait

C27_InitialBufferingEnds ==
    [][pc' = "passed" /\ C27_Buffered => ~mpctx'.paused_for_cache]_vars

\* The same for the sources that have a stream cache or are a network
\* stream.
C27_InitialBufferingEndsWithCache ==
    [][pc' = "passed" /\ C27_Buffered
          /\ (mpctx.stream_cache.size > 0 \/ mpctx.is_network)
       => ~mpctx'.paused_for_cache /\ mpctx'.paused = mpctx.opts.pause]_vars

C27_Witness ==
    /\ pc = "passed" /\ C27_Buffered
    /\ mpctx.stream_cache.size = 0 /\ ~mpctx.is_network
    /\ ~mpctx.opts.pause /\ mpctx.paused

\* C28: once stop_play holds PT_QUIT, PT_ERROR, PT_NEXT_ENTRY or
\* PT_CURRENT_ENTRY, no handler of the tick (filter graph failure, EOF
\* detector, A-B and file loop, keep-open, single step) and no seek
\* operation (queue_seek, mp_seek) changes it.
StopRequests == {PT_QUIT, PT_ERROR, PT_NEXT_ENTRY, PT_CURRENT_ENTRY}

C28_StopRequestKeptAfterLavfi ==
    [][mpctx.stop_play \in StopRequests /\ pc # "lavfi"
       => mpctx'.stop_play = mpctx.stop_play]_vars

C28_Witness ==
    /\ pc = "executed" /\ mpctx.stop_play = PT_QUIT
    /\ Emitted(mpctx, "SEEK")

C30_DeferredSeekHasDeadline ==
    pc = "wait" /\ mpctx.seek.type # MPSEEK_NONE
    => mpctx.interrupted \/ mpctx.sleeptime <= SeekDelay

\* A deferred seek is pending when the loop reaches its wait, the core
\* still woken by the queue_seek() of the tick before.
C30_Witness ==
    /\ pc = "wait" /\ mpctx.seek.type # MPSEEK_NONE
    /\ MPSEEK_FLAG_DELAY \in mpctx.seek.flags
    /\ mpctx.interrupted /\ mpctx.stop_play = KEEP_PLAYING

====
